---- MODULE Spec2Model ----
(***************************************************************************)
(* A model of the opti-task backend: four owned-row tables (projects,      *)
(* tasks, labels, time_entries), the task_labels join table, and the       *)
(* request handlers that read and write them.  Every handler is a process  *)
(* whose steps are the SQL statements it executes, one statement per step, *)
(* so that statements of concurrent requests interleave as they do on the  *)
(* server.  Storage is the set of tables of schema.rs: it enforces the     *)
(* primary keys declared there and nothing else (no foreign keys).         *)
(***************************************************************************)
EXTENDS Integers, Sequences, FiniteSets, TLC

VARIABLES
    projects,      \* projects table: id -> row
    tasks,         \* tasks table: id -> row
    labels,        \* labels table: id -> row
    task_labels,   \* task_labels table: set of rows (task_id, label_id), the primary key
    time_entries,  \* time_entries table: id -> row
    issued,        \* per table, how many ids storage has generated so far
    now,           \* the clock read by Utc::now() and by storage defaults
    pc,            \* per process: the statement its handler executes next
    req,           \* per process: the request being served
    resp,          \* per process: the response rendered, once the handler returned
    local          \* per process: what the handler keeps from one statement to the next

storeVars == <<projects, tasks, labels, task_labels, time_entries, issued>>
procVars == <<pc, req, resp, local>>
vars == <<projects, tasks, labels, task_labels, time_entries, issued, now, pc, req, resp, local>>

---------------------------------------------------------------------------
(* Bounds of the model *)

NumProcs == 2
MaxTasks == 2
MaxLabels == 2
MaxRows == 1
MaxTime == 2
\* the resolution of the model's clock and timestamps: ticks in one second
TicksPerSecond == 2

Procs == 1..NumProcs
Users == {"A", "B"}
TaskIds == 1..MaxTasks
LabelIds == 1..MaxLabels
\* the ids of a table that holds at most MaxRows rows over a run
RowIds == 1..MaxRows
\* Label and project names, by their rank in the collation order of the column.
Names == {1, 2}

---------------------------------------------------------------------------
(* Option<T>: None is the empty sequence, Some(x) the one-element sequence. *)

None == <<>>
Some(x) == <<x>>
is_none(o) == o = <<>>
is_some(o) == o # <<>>
unwrap(o) == o[1]

---------------------------------------------------------------------------
(* ServiceError and its rendering *)

InternalServerError(m) == [kind |-> "InternalServerError", msg |-> m]
BadRequest(m) == [kind |-> "BadRequest", msg |-> m]
Unauthorized(m) == [kind |-> "Unauthorized", msg |-> m]
DatabaseError(m) == [kind |-> "DatabaseError", msg |-> m]
NotFound(m) == [kind |-> "NotFound", msg |-> m]
PoolError(m) == [kind |-> "PoolError", msg |-> m]
ValidationError(m) == [kind |-> "ValidationError", msg |-> m]
ConflictError(m) == [kind |-> "ConflictError", msg |-> m]

\* diesel::result::Error as the handlers meet it
DieselNotFound == "NotFound"
DieselUniqueViolation == "DatabaseError(UniqueViolation)"

\* the diesel::result::Error::DatabaseError(kind, info) values
DieselDatabaseErrors == {DieselUniqueViolation, "DatabaseError(Unknown)"}

from_diesel_error(e) ==
    IF e = DieselNotFound
    THEN NotFound(<<"The requested item was not found">>)
    ELSE IF e \in DieselDatabaseErrors
    THEN DatabaseError(<<"A database error occurred">>)
    ELSE DatabaseError(<<"Database operation failed: {}", e>>)

\* bb8::RunError: the acquisition timed out, or the connection manager failed
RunTimedOut == "TimedOut"
RunUser(e) == <<"User", e>>

from_pool_error(e) == PoolError(<<"Database connection pool error.">>)

from_run_error(e) ==
    IF e = RunTimedOut
    THEN PoolError(<<"Database connection timed out">>)
    ELSE from_pool_error(e[2])

status_code(err) ==
    CASE err.kind = "InternalServerError" -> 500
      [] err.kind = "DatabaseError" -> 500
      [] err.kind = "PoolError" -> 500
      [] err.kind = "BadRequest" -> 400
      [] err.kind = "ValidationError" -> 400
      [] err.kind = "Unauthorized" -> 401
      [] err.kind = "NotFound" -> 404
      [] err.kind = "ConflictError" -> 409

\* a rendering that hands every error's own message to the client
user_message_of_error(err) == err.msg

user_message(err) ==
    IF err.kind \in {"InternalServerError", "DatabaseError", "PoolError"}
    THEN <<"An internal server error occurred. Please try again later.">>
    ELSE err.msg

error_response(err) ==
    [status |-> status_code(err), message |-> user_message(err), body |-> <<>>]

\* the body under cfg(debug_assertions): debug_info carries the Debug rendering of the
\* error, its own message included, and the time of the rendering
debug_info(err, t) == [error_type |-> err, timestamp |-> t]

\* error_response as either build compiles it
response_body(err, debug_assertions, t) ==
    IF debug_assertions
    THEN error_response(err) @@ ("debug_info" :> debug_info(err, t))
    ELSE error_response(err)

\* actix_web::error::ErrorUnauthorized and ErrorBadRequest: the status, the text as body
ErrorUnauthorized(m) == [status |-> 401, message |-> m, body |-> <<>>]
ErrorBadRequest(m) == [status |-> 400, message |-> m, body |-> <<>>]

\* HttpResponse::Ok().json(..) and HttpResponse::Created().json(..)
Ok(m, b) == [status |-> 200, message |-> m, body |-> b]
Created(m, b) == [status |-> 201, message |-> m, body |-> b]

NoResp == [status |-> 0, message |-> <<>>, body |-> <<>>]
NoReq == [op |-> "none", caller |-> "A", id |-> 0, label_id |-> 0, payload |-> <<>>]

Request(o, u, i, l, pl) == [op |-> o, caller |-> u, id |-> i, label_id |-> l, payload |-> pl]

---------------------------------------------------------------------------
(* auth_utils.rs: the caller identity, from the X-User-Id header *)

\* a header value: its bytes are valid UTF-8 or not, and its text
HeaderValue(utf8, text) == [utf8 |-> utf8, text |-> text]

\* Uuid::parse_str: the identities of Users are the well-formed UUIDs of the model
parse_str(s) == IF s \in Users THEN Some(s) ELSE None

Extracted(u) == [ok |-> TRUE, id |-> u]
Rejected(r) == [ok |-> FALSE, error |-> r]

\* AuthenticatedUser::from_request, h the X-User-Id header if the request has one
from_request(h) ==
    IF is_some(h)
    THEN IF unwrap(h).utf8
         THEN IF unwrap(h).text = ""
              THEN Rejected(ErrorBadRequest(<<"X-User-Id header cannot be empty.">>))
              ELSE IF is_some(parse_str(unwrap(h).text))
                   THEN Extracted(unwrap(parse_str(unwrap(h).text)))
                   ELSE Rejected(ErrorBadRequest(
                            <<"Invalid X-User-Id header format (not a valid UUID).">>))
         ELSE Rejected(ErrorBadRequest(<<"X-User-Id header contains invalid characters.">>))
    ELSE Rejected(ErrorUnauthorized(<<"Missing X-User-Id header. Authentication required.">>))

---------------------------------------------------------------------------
(* Storage statements *)

\* SELECT .. WHERE id = i AND user_id = u: the row, if any
select_owned(table, i, u) ==
    IF i \in DOMAIN table /\ table[i].user_id = u THEN Some(table[i]) ELSE None

\* DELETE .. WHERE id = i AND user_id = u: the table afterwards
delete_owned(table, i, u) ==
    [j \in {k \in DOMAIN table : ~(k = i /\ table[k].user_id = u)} |-> table[j]]

\* the number of rows the delete removed
num_deleted(before, after) == Cardinality(DOMAIN before) - Cardinality(DOMAIN after)

\* INSERT of a row under a freshly generated id
insert_row(table, row) == table @@ (row.id :> row)

\* the handler returns: its response is rendered and its locals are dropped
Finish(p, r) ==
    /\ pc' = [pc EXCEPT ![p] = "done"]
    /\ resp' = [resp EXCEPT ![p] = r]
    /\ local' = [local EXCEPT ![p] = None]

\* the handler goes on to its next statement
Goto(p, l) ==
    /\ pc' = [pc EXCEPT ![p] = l]
    /\ UNCHANGED <<resp, local>>

\* the handler goes on to its next statement, keeping the value v it just read
GotoWith(p, l, v) ==
    /\ pc' = [pc EXCEPT ![p] = l]
    /\ local' = [local EXCEPT ![p] = v]
    /\ UNCHANGED resp

\* a handler is between two of its statements
InProgress(q) == pc[q] \notin {"idle", "done"}

\* db.rs: the pool hands out at most max_size handles (15 in create_pool; the model's
\* pool is smaller than its number of workers, for the workers to contend)
PoolSize == 1

\* a worker holds a handle from the pool.get() of its handler until the handler
\* returns and drops `conn`
holds_handle(q) == InProgress(q) /\ pc[q] # "pool_get"

handles_in_use == Cardinality({q \in Procs : holds_handle(q)})

\* a pool that hands out handles without counting them
has_idle_handle_unbounded(n) == TRUE

\* pool.get() finds a handle when fewer than max_size are handed out
has_idle_handle(n) == n < PoolSize

\* the handler of request r runs its first statement: r arrives at an idle worker
\* (its pool.get() then answers at once), or r waited in pool.get() and is handed a handle
Arrive(p, r) ==
    \/ /\ pc[p] = "idle"
       /\ req' = [req EXCEPT ![p] = r]
    \/ /\ pc[p] = "pool_get"
       /\ req[p] = r
       /\ has_idle_handle(handles_in_use)
       /\ req' = req

\* request r arrives and its handler awaits pool.get()
pool_get(p, r) ==
    /\ pc[p] = "idle"
    /\ req' = [req EXCEPT ![p] = r]
    /\ Goto(p, "pool_get")
    /\ UNCHANGED <<storeVars, now>>

\* pool.get() gives up, after connection_timeout or on an error of the connection
\* manager: the `?` of the handler returns the error converted from bb8::RunError
pool_get_fails(p, e) ==
    /\ pc[p] = "pool_get"
    /\ Finish(p, error_response(from_run_error(e)))
    /\ UNCHANGED <<storeVars, now, req>>

\* the response leaves the server: the worker is free for the next request
Return(p) ==
    /\ pc[p] = "done"
    /\ pc' = [pc EXCEPT ![p] = "idle"]
    /\ req' = [req EXCEPT ![p] = NoReq]
    /\ resp' = [resp EXCEPT ![p] = NoResp]
    /\ UNCHANGED <<storeVars, now, local>>

\* time passes
Tick ==
    /\ now < MaxTime
    /\ now' = now + 1
    /\ UNCHANGED <<storeVars, pc, req, resp, local>>

Init ==
    /\ projects = <<>>
    /\ tasks = <<>>
    /\ labels = <<>>
    /\ task_labels = {}
    /\ time_entries = <<>>
    /\ issued = [projects |-> 0, tasks |-> 0, labels |-> 0, time_entries |-> 0]
    /\ now = 0
    /\ pc = [p \in Procs |-> "idle"]
    /\ req = [p \in Procs |-> NoReq]
    /\ resp = [p \in Procs |-> NoResp]
    /\ local = [p \in Procs |-> None]

---------------------------------------------------------------------------
(* Rows *)

DefaultStatus == "pending"

\* NewTask inserted: id, created_at and updated_at come from storage defaults
NewTask(i, u, pl, t) ==
    [id |-> i, user_id |-> u, project_id |-> pl.project_id, title |-> pl.title,
     description |-> pl.description,
     status |-> IF is_none(pl.status) THEN DefaultStatus ELSE unwrap(pl.status),
     due_date |-> pl.due_date, order |-> pl.order,
     created_at |-> t, updated_at |-> t]

NewLabel(i, u, pl, t) ==
    [id |-> i, user_id |-> u, name |-> pl.name, color |-> pl.color,
     created_at |-> t, updated_at |-> t]

NewTaskLabelAssociation(t, l) == [task_id |-> t, label_id |-> l]

---------------------------------------------------------------------------
(* The way of a failure: the identity extractor, the handler, the rendering *)

\* the extractor runs before the handler: a rejected request never reaches it
extract_identity(p, h) ==
    /\ Arrive(p, Request("request", IF from_request(h).ok THEN from_request(h).id ELSE "",
                          0, 0, h))
    /\ IF from_request(h).ok
       THEN Goto(p, "handler")
       ELSE Finish(p, from_request(h).error)
    /\ UNCHANGED <<storeVars, now>>

\* the handler returns Err(e)
handler_fails(p, e) ==
    /\ pc[p] = "handler"
    /\ GotoWith(p, "error_response", Some(e))
    /\ UNCHANGED <<storeVars, now, req>>

\* actix renders the Err through ResponseError::error_response, as the build has it
render_error(p) ==
    /\ pc[p] = "error_response"
    /\ \E debug_assertions \in BOOLEAN :
          Finish(p, response_body(unwrap(local[p]), debug_assertions, now))
    /\ UNCHANGED <<storeVars, now, req>>

---------------------------------------------------------------------------
(* task_handlers.rs: create and delete *)

create_task_handler(p, u, pl) ==
    /\ Arrive(p, Request("create_task", u, 0, 0, pl))
    /\ LET i == issued.tasks + 1
           row == NewTask(i, u, pl, now)
       IN /\ tasks' = insert_row(tasks, row)
          /\ issued' = [issued EXCEPT !.tasks = i]
          /\ Finish(p, Created(<<>>, <<row>>))
    /\ UNCHANGED <<projects, labels, task_labels, time_entries, now>>

\* statement 1: DELETE FROM task_labels WHERE task_id = id
delete_task_labels_stmt(tl, i, u) == {r \in tl : r.task_id # i}

\* statement 2: DELETE FROM tasks WHERE user_id = u AND id = id
delete_task_stmt(tbl, i, u) == delete_owned(tbl, i, u)

delete_task_response(n, i) ==
    IF n > 0
    THEN Ok(<<"Task with id {} deleted successfully", i>>, <<>>)
    ELSE error_response(NotFound(<<"Task with id {} not found or not owned by user to delete", i>>))

delete_task_handler(p, u, i) ==
    /\ Arrive(p, Request("delete_task", u, i, 0, <<>>))
    /\ task_labels' = delete_task_labels_stmt(task_labels, i, u)
    /\ Goto(p, "delete_task_row")
    /\ UNCHANGED <<projects, tasks, labels, time_entries, issued, now>>

delete_task_row(p) ==
    /\ pc[p] = "delete_task_row"
    /\ LET after == delete_task_stmt(tasks, req[p].id, req[p].caller)
       IN /\ tasks' = after
          /\ Finish(p, delete_task_response(num_deleted(tasks, after), req[p].id))
    /\ UNCHANGED <<projects, labels, task_labels, time_entries, issued, now, req>>

---------------------------------------------------------------------------
(* label_handlers.rs: create and delete *)

create_label_handler(p, u, pl) ==
    /\ Arrive(p, Request("create_label", u, 0, 0, pl))
    /\ LET i == issued.labels + 1
           row == NewLabel(i, u, pl, now)
       IN /\ labels' = insert_row(labels, row)
          /\ issued' = [issued EXCEPT !.labels = i]
          /\ Finish(p, Created(<<>>, <<row>>))
    /\ UNCHANGED <<projects, tasks, task_labels, time_entries, now>>

\* DELETE FROM labels WHERE user_id = u AND id = i ("suppression simple")
delete_label_stmt(tbl, i, u) == delete_owned(tbl, i, u)

delete_label_response(n, i) ==
    IF n > 0
    THEN Ok(<<"Label with id {} deleted successfully", i>>, <<>>)
    ELSE error_response(NotFound(<<"Label with id {} not found or not owned by user to delete", i>>))

delete_label_handler(p, u, i) ==
    /\ Arrive(p, Request("delete_label", u, i, 0, <<>>))
    /\ LET after == delete_label_stmt(labels, i, u)
       IN /\ labels' = after
          /\ Finish(p, delete_label_response(num_deleted(labels, after), i))
    /\ UNCHANGED <<projects, tasks, task_labels, time_entries, issued, now>>

---------------------------------------------------------------------------
(* task_label_handlers.rs *)

TaskNotOwned(i) == NotFound(<<"Task with id {} not found or not owned by user", i>>)
LabelNotOwned(i) == NotFound(<<"Label with id {} not found or not owned by user", i>>)

\* a task check without the user_id filter
task_check_any_owner(tbl, t, u) == IF t \in DOMAIN tbl THEN Some(tbl[t]) ELSE None

\* 1. SELECT id FROM tasks WHERE id = t AND user_id = u
task_check(tbl, t, u) == select_owned(tbl, t, u)

\* 2. SELECT id FROM labels WHERE id = l AND user_id = u
label_check(tbl, l, u) == select_owned(tbl, l, u)

\* an addLabel that does not look for the association before inserting it
existing_association_unchecked(tl, t, l) == None

\* 3. SELECT .. FROM task_labels WHERE task_id = t AND label_id = l
existing_association(tl, t, l) ==
    IF NewTaskLabelAssociation(t, l) \in tl THEN Some(NewTaskLabelAssociation(t, l)) ELSE None

add_label_to_task_handler(p, u, t, l) ==
    /\ Arrive(p, Request("add_label", u, t, l, <<>>))
    /\ IF is_none(task_check(tasks, t, u))
       THEN Finish(p, error_response(TaskNotOwned(t)))
       ELSE Goto(p, "add_label_check")
    /\ UNCHANGED <<storeVars, now>>

add_label_check(p) ==
    /\ pc[p] = "add_label_check"
    /\ IF is_none(label_check(labels, req[p].label_id, req[p].caller))
       THEN Finish(p, error_response(LabelNotOwned(req[p].label_id)))
       ELSE Goto(p, "add_label_existing")
    /\ UNCHANGED <<storeVars, now, req>>

add_label_existing(p) ==
    /\ pc[p] = "add_label_existing"
    /\ IF is_some(existing_association(task_labels, req[p].id, req[p].label_id))
       THEN Finish(p, Ok(<<"Label already associated with task", req[p].id, req[p].label_id>>, <<>>))
       ELSE Goto(p, "add_label_insert")
    /\ UNCHANGED <<storeVars, now, req>>

\* an insert under foreign keys: storage rejects a row whose task or label is gone
add_label_insert_with_foreign_keys(p) ==
    /\ pc[p] = "add_label_insert"
    /\ LET row == NewTaskLabelAssociation(req[p].id, req[p].label_id)
       IN IF row \in task_labels \/ row.task_id \notin DOMAIN tasks
             \/ row.label_id \notin DOMAIN labels
          THEN /\ Finish(p, error_response(from_diesel_error(DieselUniqueViolation)))
               /\ UNCHANGED task_labels
          ELSE /\ task_labels' = task_labels \cup {row}
               /\ Finish(p, Created(<<"Label added to task successfully", req[p].id, req[p].label_id>>, <<>>))
    /\ UNCHANGED <<projects, tasks, labels, time_entries, issued, now, req>>

\* 4. INSERT INTO task_labels: the primary key (task_id, label_id) rejects a second row
add_label_insert(p) ==
    /\ pc[p] = "add_label_insert"
    /\ LET row == NewTaskLabelAssociation(req[p].id, req[p].label_id)
       IN IF row \in task_labels
          THEN /\ Finish(p, error_response(from_diesel_error(DieselUniqueViolation)))
               /\ UNCHANGED task_labels
          ELSE /\ task_labels' = task_labels \cup {row}
               /\ Finish(p, Created(<<"Label added to task successfully", req[p].id, req[p].label_id>>, <<>>))
    /\ UNCHANGED <<projects, tasks, labels, time_entries, issued, now, req>>

\* task_labels JOIN labels ON labels.id = task_labels.label_id WHERE task_id = t
labels_for_task(tl, lbl, t) ==
    {lbl[r.label_id] : r \in {x \in tl : x.task_id = t /\ x.label_id \in DOMAIN lbl}}

\* the orders in which a query without ORDER BY may return a set of rows
Orderings(S) ==
    {s \in [1..Cardinality(S) -> S] : \A i, j \in 1..Cardinality(S) : i # j => s[i] # s[j]}

list_labels_for_task_handler(p, u, t) ==
    /\ Arrive(p, Request("list_labels", u, t, 0, <<>>))
    /\ IF is_none(task_check(tasks, t, u))
       THEN Finish(p, error_response(TaskNotOwned(t)))
       ELSE Goto(p, "list_labels_load")
    /\ UNCHANGED <<storeVars, now>>

list_labels_load(p) ==
    /\ pc[p] = "list_labels_load"
    /\ \E s \in Orderings(labels_for_task(task_labels, labels, req[p].id)) :
          Finish(p, Ok(<<>>, s))
    /\ UNCHANGED <<storeVars, now, req>>

remove_label_response(n, t, l) ==
    IF n > 0
    THEN Ok(<<"Label removed from task successfully", t, l>>, <<>>)
    ELSE error_response(NotFound(
           <<"Association between task {} and label {} not found, or task not owned by user.", t, l>>))

remove_label_from_task_handler(p, u, t, l) ==
    /\ Arrive(p, Request("remove_label", u, t, l, <<>>))
    /\ IF is_none(task_check(tasks, t, u))
       THEN Finish(p, error_response(TaskNotOwned(t)))
       ELSE Goto(p, "remove_label_delete")
    /\ UNCHANGED <<storeVars, now>>

remove_label_delete(p) ==
    /\ pc[p] = "remove_label_delete"
    /\ LET after == task_labels \ {NewTaskLabelAssociation(req[p].id, req[p].label_id)}
       IN /\ task_labels' = after
          /\ Finish(p, remove_label_response(Cardinality(task_labels) - Cardinality(after),
                                             req[p].id, req[p].label_id))
    /\ UNCHANGED <<projects, tasks, labels, time_entries, issued, now, req>>

---------------------------------------------------------------------------
(* JSON update payloads and their deserialization (models.rs) *)

\* a JSON value: null, or a value v; a payload maps the keys it holds to values
JNull == [null |-> TRUE, v |-> 0]
JVal(x) == [null |-> FALSE, v |-> x]

\* Option::<T>::deserialize: null -> None, v -> Some(v)
option_deserialize(j) == IF j.null THEN None ELSE Some(j.v)

\* Ok(Some(s)) => Ok(Some(Some(s))), Ok(None) => Ok(Some(None))
opt_opt(o) == IF is_some(o) THEN Some(Some(unwrap(o))) ELSE Some(None)

deserialize_opt_opt_string(j) == opt_opt(option_deserialize(j))
deserialize_opt_opt_uuid(j) == opt_opt(option_deserialize(j))
deserialize_opt_opt_naivedate(j) == opt_opt(option_deserialize(j))
deserialize_opt_opt_i32(j) == opt_opt(option_deserialize(j))
deserialize_opt_opt_datetime_utc(j) == opt_opt(option_deserialize(j))

\* a field of type Option<T>: absent or null -> None
field_opt(pl, k) == IF k \in DOMAIN pl THEN option_deserialize(pl[k]) ELSE None

\* #[serde(default)]: an absent key takes Default::default(), that is None
serde_default == None

UpdateProjectPayload(pl) ==
    [name |-> field_opt(pl, "name"),
     color |-> IF "color" \in DOMAIN pl
         THEN deserialize_opt_opt_string(pl["color"])
         ELSE serde_default]

UpdateLabelPayload(pl) ==
    [name |-> field_opt(pl, "name"),
     color |-> IF "color" \in DOMAIN pl
         THEN deserialize_opt_opt_string(pl["color"])
         ELSE serde_default]

UpdateTaskPayload(pl) ==
    [project_id |-> IF "project_id" \in DOMAIN pl
         THEN deserialize_opt_opt_uuid(pl["project_id"])
         ELSE serde_default,
     title |-> field_opt(pl, "title"),
     description |-> IF "description" \in DOMAIN pl
         THEN deserialize_opt_opt_string(pl["description"])
         ELSE serde_default,
     status |-> field_opt(pl, "status"),
     due_date |-> IF "due_date" \in DOMAIN pl
         THEN deserialize_opt_opt_naivedate(pl["due_date"])
         ELSE serde_default,
     order |-> IF "order" \in DOMAIN pl
         THEN deserialize_opt_opt_i32(pl["order"])
         ELSE serde_default]

UpdateTimeEntryPayload(pl) ==
    [start_time |-> field_opt(pl, "start_time"),
     end_time |-> IF "end_time" \in DOMAIN pl
         THEN deserialize_opt_opt_datetime_utc(pl["end_time"])
         ELSE serde_default,
     duration_seconds |-> IF "duration_seconds" \in DOMAIN pl
         THEN deserialize_opt_opt_i32(pl["duration_seconds"])
         ELSE serde_default,
     is_pomodoro_session |-> field_opt(pl, "is_pomodoro_session")]

\* AsChangeset: a None field assigns nothing, Some(x) assigns x to the column
\* (for a nullable column x is itself an Option: Some(None) stores NULL)
set_column(col, ch) == IF is_none(ch) THEN col ELSE unwrap(ch)

\* UPDATE .. WHERE id = i AND user_id = u SET .. RETURNING *: get_result
update_owned(table, i, u, newrow) ==
    IF is_some(select_owned(table, i, u)) THEN [table EXCEPT ![i] = newrow] ELSE table

---------------------------------------------------------------------------
(* project_handlers.rs *)

NewProject(i, u, pl, t) ==
    [id |-> i, user_id |-> u, name |-> pl.name, color |-> pl.color,
     created_at |-> t, updated_at |-> t]

create_project_handler(p, u, pl) ==
    /\ Arrive(p, Request("create_project", u, 0, 0, pl))
    /\ LET i == issued.projects + 1
           row == NewProject(i, u, pl, now)
       IN /\ projects' = insert_row(projects, row)
          /\ issued' = [issued EXCEPT !.projects = i]
          /\ Finish(p, Created(<<>>, <<row>>))
    /\ UNCHANGED <<tasks, labels, task_labels, time_entries, now>>

\* a project lookup without the user_id filter
get_project_stmt_any_owner(tbl, i, u) == IF i \in DOMAIN tbl THEN Some(tbl[i]) ELSE None

\* SELECT .. FROM projects WHERE id = i AND user_id = u
get_project_stmt(tbl, i, u) == select_owned(tbl, i, u)

get_project_response(o, i) ==
    IF is_some(o)
    THEN Ok(<<>>, <<unwrap(o)>>)
    ELSE error_response(NotFound(<<"Project with id {} not found or not owned by user", i>>))

get_project_handler(p, u, i) ==
    /\ Arrive(p, Request("get_project", u, i, 0, <<>>))
    /\ Finish(p, get_project_response(get_project_stmt(projects, i, u), i))
    /\ UNCHANGED <<storeVars, now>>

UpdateProjectChangeset(pl, t) ==
    [name |-> pl.name, color |-> pl.color, updated_at |-> Some(t)]

apply_project_changes(row, ch) ==
    [row EXCEPT !.name = set_column(@, ch.name),
                !.color = set_column(@, ch.color),
                !.updated_at = set_column(@, ch.updated_at)]

update_project_stmt(tbl, i, u, ch) ==
    IF is_some(select_owned(tbl, i, u))
    THEN update_owned(tbl, i, u, apply_project_changes(tbl[i], ch))
    ELSE tbl

\* get_result of an UPDATE .. RETURNING that matched no row is Error::NotFound
update_response(before, after, i, u) ==
    IF is_some(select_owned(before, i, u))
    THEN Ok(<<>>, <<after[i]>>)
    ELSE error_response(from_diesel_error(DieselNotFound))

update_project_handler(p, u, i, pl) ==
    /\ Arrive(p, Request("update_project", u, i, 0, pl))
    /\ LET after == update_project_stmt(projects, i, u,
                        UpdateProjectChangeset(UpdateProjectPayload(pl), now))
       IN /\ projects' = after
          /\ Finish(p, update_response(projects, after, i, u))
    /\ UNCHANGED <<tasks, labels, task_labels, time_entries, issued, now>>

delete_project_stmt(tbl, i, u) == delete_owned(tbl, i, u)

delete_project_response(n, i) ==
    IF n > 0
    THEN Ok(<<"Project with id {} deleted successfully", i>>, <<>>)
    ELSE error_response(NotFound(<<"Project with id {} not found or not owned by user to delete", i>>))

delete_project_handler(p, u, i) ==
    /\ Arrive(p, Request("delete_project", u, i, 0, <<>>))
    /\ LET after == delete_project_stmt(projects, i, u)
       IN /\ projects' = after
          /\ Finish(p, delete_project_response(num_deleted(projects, after), i))
    /\ UNCHANGED <<tasks, labels, task_labels, time_entries, issued, now>>

---------------------------------------------------------------------------
(* label_handlers.rs: get and update *)

get_label_stmt(tbl, i, u) == select_owned(tbl, i, u)

get_label_response(o, i) ==
    IF is_some(o)
    THEN Ok(<<>>, <<unwrap(o)>>)
    ELSE error_response(NotFound(<<"Label with id {} not found or not owned by user", i>>))

get_label_handler(p, u, i) ==
    /\ Arrive(p, Request("get_label", u, i, 0, <<>>))
    /\ Finish(p, get_label_response(get_label_stmt(labels, i, u), i))
    /\ UNCHANGED <<storeVars, now>>

UpdateLabelChangeset(pl, t) ==
    [name |-> pl.name, color |-> pl.color, updated_at |-> Some(t)]

apply_label_changes(row, ch) ==
    [row EXCEPT !.name = set_column(@, ch.name),
                !.color = set_column(@, ch.color),
                !.updated_at = set_column(@, ch.updated_at)]

update_label_stmt(tbl, i, u, ch) ==
    IF is_some(select_owned(tbl, i, u))
    THEN update_owned(tbl, i, u, apply_label_changes(tbl[i], ch))
    ELSE tbl

update_label_handler(p, u, i, pl) ==
    /\ Arrive(p, Request("update_label", u, i, 0, pl))
    /\ LET after == update_label_stmt(labels, i, u,
                        UpdateLabelChangeset(UpdateLabelPayload(pl), now))
       IN /\ labels' = after
          /\ Finish(p, update_response(labels, after, i, u))
    /\ UNCHANGED <<projects, tasks, task_labels, time_entries, issued, now>>

---------------------------------------------------------------------------
(* task_handlers.rs: get and update *)

get_task_stmt(tbl, i, u) == select_owned(tbl, i, u)

\* TaskApiResponse: the task and the labels loaded for it
TaskApiResponse(row, ls) == [task |-> row, labels |-> ls]

\* the match on the task found: Some(task) answers it with its labels ls
get_task_response(o, i, ls) ==
    IF is_some(o)
    THEN Ok(<<>>, <<TaskApiResponse(unwrap(o), ls)>>)
    ELSE error_response(TaskNotOwned(i))

get_task_handler(p, u, i) ==
    /\ Arrive(p, Request("get_task", u, i, 0, <<>>))
    /\ LET o == get_task_stmt(tasks, i, u)
       IN IF is_some(o)
          THEN GotoWith(p, "task_labels_load", o)
          ELSE Finish(p, get_task_response(o, i, <<>>))
    /\ UNCHANGED <<storeVars, now>>

\* the labels of the task found or updated, loaded by a statement of its own
task_labels_load(p) ==
    /\ pc[p] = "task_labels_load"
    /\ \E s \in Orderings(labels_for_task(task_labels, labels, req[p].id)) :
          Finish(p, get_task_response(local[p], req[p].id, s))
    /\ UNCHANGED <<storeVars, now, req>>

---------------------------------------------------------------------------
(* task_handlers.rs: list *)

\* i64::MAX at the width the model gives i64 (8 bits, page numbers scaled with it)
I64Max == 127

fits_i64(x) == -(I64Max + 1) <= x /\ x <= I64Max

wrapping_i64(x) == ((x + I64Max + 1) % (2 * (I64Max + 1))) - (I64Max + 1)

\* an i64 operation of exact result x: the result when it fits; on overflow the build
\* decides, a panic (None) with overflow checks, the wrapped value without
arith_i64(x) == IF fits_i64(x) THEN {Some(x)} ELSE {None, Some(wrapping_i64(x))}

\* i64 division, which truncates toward zero (b # 0)
div_i64(a, b) ==
    LET q == (IF a < 0 THEN -a ELSE a) \div (IF b < 0 THEN -b ELSE b)
    IN IF (a < 0) = (b < 0) THEN q ELSE -q

\* the handler panics: the request gets no response
Panicked == [status |-> 0, message |-> <<"panicked">>, body |-> <<>>]

\* query.page.unwrap_or(1) and query.per_page.unwrap_or(10)
DefaultPage == 1
DefaultPerPage == 10
unwrap_or(o, d) == IF is_some(o) THEN unwrap(o) ELSE d

TaskQueryParams(pr, st, pg, pp) == [project_id |-> pr, status |-> st, page |-> pg, per_page |-> pp]

\* tasks WHERE user_id = u [AND project_id = ..] [AND status = ..]
filter_tasks(tbl, u, q) ==
    {tbl[i] : i \in {j \in DOMAIN tbl :
        /\ tbl[j].user_id = u
        /\ is_some(q.project_id) => tbl[j].project_id = q.project_id
        /\ is_some(q.status) => tbl[j].status = unwrap(q.status)}}

\* count_query.count()
count_query(tbl, u, q) == Cardinality(filter_tasks(tbl, u, q))

\* ORDER BY created_at DESC: the orders storage may return the rows S in (rows of
\* equal created_at come in any order)
order_created_at_desc(S) ==
    {s \in Orderings(S) :
        \A j \in 1..(Cardinality(S) - 1) : s[j].created_at >= s[j + 1].created_at}

\* LIMIT l OFFSET o over the ordered rows s (l >= 0, o >= 0)
limit_offset(s, l, o) ==
    SubSeq(s, o + 1, IF o + l < Len(s) THEN o + l ELSE Len(s))

\* storage rejects a negative LIMIT or OFFSET
query_fails(l, o) == l < 0 \/ o < 0

PaginatedResponse(items, total_items, total_pages, page, per_page) ==
    [items |-> items, total_items |-> total_items, total_pages |-> total_pages,
     page |-> page, per_page |-> per_page]

\* page, per_page and offset are computed, then the count statement runs
list_tasks_handler(p, u, q) ==
    /\ Arrive(p, Request("list_tasks", u, 0, 0, q))
    /\ LET page == unwrap_or(q.page, DefaultPage)
           per_page == unwrap_or(q.per_page, DefaultPerPage)
       IN \E offset \in arith_i64((page - 1) * per_page) :
             IF is_none(offset)
             THEN Finish(p, Panicked)
             ELSE GotoWith(p, "list_tasks_load",
                           Some([page |-> page, per_page |-> per_page,
                                 offset |-> unwrap(offset),
                                 total_items |-> count_query(tasks, u, q),
                                 task_list |-> <<>>, task_responses |-> <<>>]))
    /\ UNCHANGED <<storeVars, now>>

\* the main query, with ORDER BY, LIMIT and OFFSET
list_tasks_load(p) ==
    /\ pc[p] = "list_tasks_load"
    /\ LET l == unwrap(local[p])
       IN IF query_fails(l.per_page, l.offset)
          THEN Finish(p, error_response(from_diesel_error("DatabaseError(Unknown)")))
          ELSE \E s \in order_created_at_desc(filter_tasks(tasks, req[p].caller, req[p].payload)) :
                  GotoWith(p, "list_tasks_labels",
                           Some([l EXCEPT !.task_list = limit_offset(s, l.per_page, l.offset)]))
    /\ UNCHANGED <<storeVars, now, req>>

\* the loop over task_list, one label query for each task; then total_pages
list_tasks_labels(p) ==
    /\ pc[p] = "list_tasks_labels"
    /\ LET l == unwrap(local[p])
           n == Len(l.task_responses)
       IN IF n < Len(l.task_list)
          THEN \E s \in Orderings(labels_for_task(task_labels, labels, l.task_list[n + 1].id)) :
                  GotoWith(p, "list_tasks_labels",
                           Some([l EXCEPT !.task_responses =
                                   Append(@, TaskApiResponse(l.task_list[n + 1], s))]))
          ELSE IF l.per_page = 0
          THEN Finish(p, Panicked)
          ELSE \E o \in arith_i64(l.total_items + l.per_page - 1) :
                  IF is_none(o)
                  THEN Finish(p, Panicked)
                  ELSE Finish(p, Ok(<<>>, <<PaginatedResponse(l.task_responses, l.total_items,
                                                div_i64(unwrap(o), l.per_page),
                                                l.page, l.per_page)>>))
    /\ UNCHANGED <<storeVars, now, req>>

\* a changeset that leaves updated_at out
UpdateTaskChangeset_without_updated_at(pl, t) ==
    [project_id |-> pl.project_id, title |-> pl.title, description |-> pl.description,
     status |-> pl.status, due_date |-> pl.due_date, order |-> pl.order,
     updated_at |-> None]

UpdateTaskChangeset(pl, t) ==
    [project_id |-> pl.project_id, title |-> pl.title, description |-> pl.description,
     status |-> pl.status, due_date |-> pl.due_date, order |-> pl.order,
     updated_at |-> Some(t)]

apply_task_changes(row, ch) ==
    [row EXCEPT !.project_id = set_column(@, ch.project_id),
                !.title = set_column(@, ch.title),
                !.description = set_column(@, ch.description),
                !.status = set_column(@, ch.status),
                !.due_date = set_column(@, ch.due_date),
                !.order = set_column(@, ch.order),
                !.updated_at = set_column(@, ch.updated_at)]

update_task_stmt(tbl, i, u, ch) ==
    IF is_some(select_owned(tbl, i, u))
    THEN update_owned(tbl, i, u, apply_task_changes(tbl[i], ch))
    ELSE tbl

update_task_handler(p, u, i, pl) ==
    /\ Arrive(p, Request("update_task", u, i, 0, pl))
    /\ LET after == update_task_stmt(tasks, i, u,
                        UpdateTaskChangeset(UpdateTaskPayload(pl), now))
           r == update_response(tasks, after, i, u)
       IN /\ tasks' = after
          /\ IF r.status = 200
             THEN GotoWith(p, "task_labels_load", Some(after[i]))
             ELSE Finish(p, r)
    /\ UNCHANGED <<projects, labels, task_labels, time_entries, issued, now>>

\* a toggle that only ever completes
new_status_always_completed(task) == "completed"

\* "pending" if the stored status is exactly "completed", else "completed"
new_status(task) == IF task.status = "completed" THEN "pending" ELSE "completed"

\* the changeset of a toggle: status and updated_at, every other field None
toggle_changes(task, t) ==
    [project_id |-> None, title |-> None, description |-> None,
     status |-> Some(new_status(task)), due_date |-> None, order |-> None,
     updated_at |-> Some(t)]

\* toggle_task_completion_handler (PUT /tasks/{id}/toggle-completion) is defined in
\* task_handlers.rs; the tasks scope of main.rs does not list it among its services.
\* first statement: the task as it stands, to learn its status
toggle_task_completion_handler(p, u, i) ==
    /\ Arrive(p, Request("toggle_task", u, i, 0, <<>>))
    /\ LET o == select_owned(tasks, i, u)
       IN IF is_some(o)
          THEN GotoWith(p, "toggle_update", o)
          ELSE Finish(p, error_response(TaskNotOwned(i)))
    /\ UNCHANGED <<storeVars, now>>

\* second statement: the UPDATE with the status decided from the task read before
toggle_update(p) ==
    /\ pc[p] = "toggle_update"
    /\ LET i == req[p].id
           u == req[p].caller
           after == update_task_stmt(tasks, i, u, toggle_changes(unwrap(local[p]), now))
           r == update_response(tasks, after, i, u)
       IN /\ tasks' = after
          /\ IF r.status = 200
             THEN GotoWith(p, "task_labels_load", Some(after[i]))
             ELSE Finish(p, r)
    /\ UNCHANGED <<projects, labels, task_labels, time_entries, issued, now, req>>

---------------------------------------------------------------------------
(* time_entry_handlers.rs *)

\* a timestamp n seconds after the origin of the model's clock
Seconds(n) == n * TicksPerSecond

\* TimeDelta::num_seconds: the whole seconds of a difference of timestamps
num_seconds(d) == IF d >= 0 THEN d \div TicksPerSecond ELSE -((-d) \div TicksPerSecond)

\* `as i32`: the two's-complement wrap of the cast, at the width the model gives i32
\* (16 bits, the model's clock values being scaled down with it)
as_i32(x) == ((x + 32768) % 65536) - 32768

NewTimeEntry(i, u, pl, d, t) ==
    [id |-> i, user_id |-> u, task_id |-> pl.task_id, start_time |-> pl.start_time,
     end_time |-> pl.end_time, duration_seconds |-> d,
     is_pomodoro_session |-> IF is_none(pl.is_pomodoro_session) THEN FALSE
                             ELSE unwrap(pl.is_pomodoro_session),
     created_at |-> t, updated_at |-> t]

\* 2. duration_seconds, derived when end_time is given and duration_seconds is not
final_duration_seconds(pl) ==
    IF is_some(pl.end_time) /\ is_none(pl.duration_seconds)
       /\ unwrap(pl.end_time) > pl.start_time
    THEN Some(as_i32(num_seconds(unwrap(pl.end_time) - pl.start_time)))
    ELSE pl.duration_seconds

create_time_entry_handler(p, u, pl) ==
    /\ Arrive(p, Request("create_time_entry", u, pl.task_id, 0, pl))
    /\ IF is_none(select_owned(tasks, pl.task_id, u))
       THEN Finish(p, error_response(TaskNotOwned(pl.task_id)))
       ELSE Goto(p, "create_time_entry_insert")
    /\ UNCHANGED <<storeVars, now>>

create_time_entry_insert(p) ==
    /\ pc[p] = "create_time_entry_insert"
    /\ LET pl == req[p].payload
           i == issued.time_entries + 1
           row == NewTimeEntry(i, req[p].caller, pl, final_duration_seconds(pl), now)
       IN /\ time_entries' = insert_row(time_entries, row)
          /\ issued' = [issued EXCEPT !.time_entries = i]
          /\ Finish(p, Created(<<>>, <<row>>))
    /\ UNCHANGED <<projects, tasks, labels, task_labels, now, req>>

get_time_entry_stmt(tbl, i, u) == select_owned(tbl, i, u)

get_time_entry_response(o, i) ==
    IF is_some(o)
    THEN Ok(<<>>, <<unwrap(o)>>)
    ELSE error_response(NotFound(<<"TimeEntry with id {} not found or not owned by user", i>>))

get_time_entry_handler(p, u, i) ==
    /\ Arrive(p, Request("get_time_entry", u, i, 0, <<>>))
    /\ Finish(p, get_time_entry_response(get_time_entry_stmt(time_entries, i, u), i))
    /\ UNCHANGED <<storeVars, now>>

\* SELECT start_time FROM time_entries WHERE id = i AND user_id = u
current_entry_start_time(tbl, i, u) ==
    IF is_some(select_owned(tbl, i, u)) THEN Some(tbl[i].start_time) ELSE None

\* a changeset in which an explicit null always clears the column
changeset_duration_null_clears(pl, start) ==
    IF /\ is_some(pl.end_time)
       /\ is_some(unwrap(pl.end_time))
       /\ is_none(pl.duration_seconds)
       /\ unwrap(unwrap(pl.end_time)) > start
    THEN Some(Some(as_i32(num_seconds(unwrap(unwrap(pl.end_time)) - start))))
    ELSE pl.duration_seconds

\* the duration the changeset carries, given the start_time read by the first statement
changeset_duration(pl, start) ==
    IF /\ is_some(pl.end_time)
       /\ is_some(unwrap(pl.end_time))
       /\ (is_none(pl.duration_seconds) \/ pl.duration_seconds = Some(None))
       /\ unwrap(unwrap(pl.end_time)) > start
    THEN Some(Some(as_i32(num_seconds(unwrap(unwrap(pl.end_time)) - start))))
    ELSE pl.duration_seconds

UpdateTimeEntryChangeset(pl, start, t) ==
    [start_time |-> pl.start_time, end_time |-> pl.end_time,
     duration_seconds |-> changeset_duration(pl, start),
     is_pomodoro_session |-> pl.is_pomodoro_session, updated_at |-> Some(t)]

apply_time_entry_changes(row, ch) ==
    [row EXCEPT !.start_time = set_column(@, ch.start_time),
                !.end_time = set_column(@, ch.end_time),
                !.duration_seconds = set_column(@, ch.duration_seconds),
                !.is_pomodoro_session = set_column(@, ch.is_pomodoro_session),
                !.updated_at = set_column(@, ch.updated_at)]

update_time_entry_stmt(tbl, i, u, ch) ==
    IF is_some(select_owned(tbl, i, u))
    THEN update_owned(tbl, i, u, apply_time_entry_changes(tbl[i], ch))
    ELSE tbl

\* o is the start_time read by the first statement: without it the handler returns
\* its own NotFound, with it the outcome of the UPDATE
update_time_entry_response(o, before, after, i, u) ==
    IF is_none(o)
    THEN error_response(NotFound(
           <<"TimeEntry with id {} not found or not owned by user for update", i>>))
    ELSE update_response(before, after, i, u)

\* the first statement reads the start_time the second one derives the duration from
update_time_entry_handler(p, u, i, pl) ==
    /\ Arrive(p, Request("update_time_entry", u, i, 0, pl))
    /\ LET o == current_entry_start_time(time_entries, i, u)
       IN IF is_some(o)
          THEN GotoWith(p, "update_time_entry_write", o)
          ELSE Finish(p, update_time_entry_response(o, time_entries, time_entries, i, u))
    /\ UNCHANGED <<storeVars, now>>

update_time_entry_write(p) ==
    /\ pc[p] = "update_time_entry_write"
    /\ LET i == req[p].id
           u == req[p].caller
           ch == UpdateTimeEntryChangeset(UpdateTimeEntryPayload(req[p].payload),
                                          unwrap(local[p]), now)
           after == update_time_entry_stmt(time_entries, i, u, ch)
       IN /\ time_entries' = after
          /\ Finish(p, update_time_entry_response(local[p], time_entries, after, i, u))
    /\ UNCHANGED <<projects, tasks, labels, task_labels, issued, now, req>>

delete_time_entry_stmt(tbl, i, u) == delete_owned(tbl, i, u)

delete_time_entry_response(n, i) ==
    IF n > 0
    THEN Ok(<<"TimeEntry with id {} deleted successfully", i>>, <<>>)
    ELSE error_response(NotFound(<<"TimeEntry with id {} not found or not owned by user to delete", i>>))

delete_time_entry_handler(p, u, i) ==
    /\ Arrive(p, Request("delete_time_entry", u, i, 0, <<>>))
    /\ LET after == delete_time_entry_stmt(time_entries, i, u)
       IN /\ time_entries' = after
          /\ Finish(p, delete_time_entry_response(num_deleted(time_entries, after), i))
    /\ UNCHANGED <<projects, tasks, labels, task_labels, issued, now>>

---------------------------------------------------------------------------
(* chrono: NaiveDate is the number of days since 1970-01-01 in the proleptic    *)
(* Gregorian calendar; the conversions from and to (year, month, day) are the  *)
(* civil-calendar computations.                                                *)

\* NaiveDate::from_ymd_opt(y, m, d).unwrap()
from_ymd(y, m, d) ==
    LET yy == IF m <= 2 THEN y - 1 ELSE y
        era == yy \div 400
        yoe == yy - era * 400
        doy == (153 * (IF m > 2 THEN m - 3 ELSE m + 9) + 2) \div 5 + d - 1
        doe == yoe * 365 + yoe \div 4 - yoe \div 100 + doy
    IN era * 146097 + doe - 719468

\* the (year, month, day) of a NaiveDate
ymd(date) ==
    LET z == date + 719468
        era == z \div 146097
        doe == z - era * 146097
        yoe == (doe - doe \div 1460 + doe \div 36524 - doe \div 146096) \div 365
        doy == doe - (365 * yoe + yoe \div 4 - yoe \div 100)
        mp == (5 * doy + 2) \div 153
        mm == IF mp < 10 THEN mp + 3 ELSE mp - 9
    IN [year |-> yoe + era * 400 + (IF mm <= 2 THEN 1 ELSE 0), month |-> mm,
        day |-> doy - (153 * mp + 2) \div 5 + 1]

\* Datelike::year and Datelike::month
year(date) == ymd(date).year
month(date) == ymd(date).month

\* Weekday::num_days_from_monday of the date's weekday (1970-01-01 was a Thursday)
num_days_from_monday(date) == (date + 3) % 7

\* a week that starts on the Sunday
week_first_day_from_sunday(date) == date - ((date + 4) % 7)

\* date.week(Weekday::Mon).first_day() and .last_day()
week_first_day(date) == date - num_days_from_monday(date)
week_last_day(date) == week_first_day(date) + 6

\* the model's clock counts ticks from 00:00:00 UTC of this date
ClockOrigin == from_ymd(2023, 1, 1)
SecondsPerDay == 86400
TicksPerDay == SecondsPerDay * TicksPerSecond

\* Utc::now().date_naive() at instant t
date_naive(t) == ClockOrigin + t \div TicksPerDay

\* Utc.from_utc_datetime(&date.and_hms_opt(h, m, s).unwrap())
and_hms(date, h, m, s) == (date - ClockOrigin) * TicksPerDay + Seconds(h * 3600 + m * 60 + s)

---------------------------------------------------------------------------
(* analytics_handlers.rs *)

AnalyticsQueryPeriod(pd, sd, ed) == [period |-> pd, start_date |-> sd, end_date |-> ed]

\* Ok((start, end)) is Some of the pair; Err(e) is the error e
DateRange(start, end) == [ok |-> TRUE, start |-> start, end |-> end]
DateRangeErr(e) == [ok |-> FALSE, err |-> e]

\* a computation that stays in the date's year
next_month_first_day_same_year(today) ==
    from_ymd(year(today), IF month(today) = 12 THEN 1 ELSE month(today) + 1, 1)

\* the first day of the month after the date's
next_month_first_day(today) ==
    from_ymd(year(today) + (IF month(today) = 12 THEN 1 ELSE 0),
             IF month(today) = 12 THEN 1 ELSE month(today) + 1, 1)

\* the match on the period selector
period_range(q, today) ==
    CASE q.period = Some("this_week") ->
           DateRange(week_first_day(today), week_last_day(today))
      [] q.period = Some("last_7_days") -> DateRange(today - 6, today)
      [] q.period = Some("this_month") ->
           DateRange(from_ymd(year(today), month(today), 1), next_month_first_day(today) - 1)
      [] q.period = Some("last_30_days") -> DateRange(today - 29, today)
      [] q.period = None ->
           DateRange(week_first_day(today), week_last_day(today))
      [] OTHER ->
           DateRangeErr(BadRequest(<<"Invalid period specified: {}. Supported: this_week, last_7_days, this_month, last_30_days or provide start_date & end_date.", unwrap(q.period)>>))

\* a resolver that lets a period selector go before the date pair
calculate_date_range_period_first(q, today) ==
    IF is_some(q.period) \/ ~(is_some(q.start_date) /\ is_some(q.end_date))
    THEN period_range(q, today)
    ELSE IF unwrap(q.start_date) > unwrap(q.end_date)
         THEN DateRangeErr(BadRequest(<<"start_date cannot be after end_date">>))
         ELSE DateRange(unwrap(q.start_date), unwrap(q.end_date))

\* a resolver that does not look at the order of the two dates
calculate_date_range_unvalidated(q, today) ==
    IF is_some(q.start_date) /\ is_some(q.end_date)
    THEN DateRange(unwrap(q.start_date), unwrap(q.end_date))
    ELSE period_range(q, today)

calculate_date_range(q, today) ==
    IF is_some(q.start_date) /\ is_some(q.end_date)
    THEN IF unwrap(q.start_date) > unwrap(q.end_date)
         THEN DateRangeErr(BadRequest(<<"start_date cannot be after end_date">>))
         ELSE DateRange(unwrap(q.start_date), unwrap(q.end_date))
    ELSE period_range(q, today)

\* the datetime bounds bound to $2 and $3
start_datetime(range) == and_hms(range.start, 0, 0, 0)
end_datetime(range) == and_hms(range.end, 23, 59, 59)

\* SUM(duration_seconds) over the entries E, NULLs left out; NULL when there is none
RECURSIVE sum_duration(_)
sum_duration(E) ==
    IF E = {} THEN None
    ELSE LET e == CHOOSE x \in E : TRUE
             rest == sum_duration(E \ {e})
         IN IF is_none(e.duration_seconds) THEN rest
            ELSE IF is_none(rest) THEN e.duration_seconds
            ELSE Some(unwrap(rest) + unwrap(e.duration_seconds))

\* COALESCE(x, 0)
coalesce_zero(o) == IF is_some(o) THEN unwrap(o) ELSE 0

\* WHERE te.user_id = $1 AND te.start_time >= $2 AND te.start_time <= $3
entries_in_window(te, u, lo, hi) ==
    {te[i] : i \in {j \in DOMAIN te :
        te[j].user_id = u /\ te[j].start_time >= lo /\ te[j].start_time <= hi}}

\* time_entries JOIN tasks ON te.task_id = t.id JOIN projects ON t.project_id = p.id
\* WHERE .. AND t.project_id IS NOT NULL: the entries joined, and the project of each
joins_project(e, tk, pr) ==
    /\ e.task_id \in DOMAIN tk
    /\ is_some(tk[e.task_id].project_id)
    /\ unwrap(tk[e.task_id].project_id) \in DOMAIN pr

TimeByProjectStat(i, n, total) ==
    [project_id |-> i, project_name |-> n, total_duration_seconds |-> total]

\* GROUP BY p.id, p.name
time_by_project_rows(te, tk, pr, u, lo, hi) ==
    LET E == {e \in entries_in_window(te, u, lo, hi) : joins_project(e, tk, pr)}
        P == {unwrap(tk[e.task_id].project_id) : e \in E}
    IN {TimeByProjectStat(i, pr[i].name, coalesce_zero(sum_duration(
            {e \in E : unwrap(tk[e.task_id].project_id) = i}))) : i \in P}

\* an ORDER BY that puts the smallest total first
order_total_asc(S) ==
    {s \in Orderings(S) :
        \A j \in 1..(Cardinality(S) - 1) :
            s[j].total_duration_seconds <= s[j + 1].total_duration_seconds}

\* ORDER BY total_duration_seconds DESC
order_total_desc(S) ==
    {s \in Orderings(S) :
        \A j \in 1..(Cardinality(S) - 1) :
            s[j].total_duration_seconds >= s[j + 1].total_duration_seconds}

ProductivityTrendPoint(d, total) == [date_point |-> d, total_duration_seconds |-> total]

\* DATE(te.start_time AT TIME ZONE 'UTC')
date_point(e) == date_naive(e.start_time)

\* GROUP BY date_point
productivity_trend_rows(te, u, lo, hi) ==
    LET E == entries_in_window(te, u, lo, hi)
    IN {ProductivityTrendPoint(d, coalesce_zero(sum_duration({e \in E : date_point(e) = d}))) :
          d \in {date_point(e) : e \in E}}

\* an ORDER BY that puts the latest date first
order_date_desc(S) ==
    {s \in Orderings(S) :
        \A j \in 1..(Cardinality(S) - 1) : s[j].date_point > s[j + 1].date_point}

\* ORDER BY date_point ASC
order_date_asc(S) ==
    {s \in Orderings(S) :
        \A j \in 1..(Cardinality(S) - 1) : s[j].date_point < s[j + 1].date_point}

\* the window is resolved before a connection is taken: an Err returns at once
get_time_by_project_handler(p, u, q) ==
    /\ Arrive(p, Request("time_by_project", u, 0, 0, q))
    /\ LET range == calculate_date_range(q, date_naive(now))
       IN IF range.ok
          THEN GotoWith(p, "time_by_project_query", Some(range))
          ELSE Finish(p, error_response(range.err))
    /\ UNCHANGED <<storeVars, now>>

time_by_project_query(p) ==
    /\ pc[p] = "time_by_project_query"
    /\ \E s \in order_total_desc(time_by_project_rows(time_entries, tasks, projects,
                   req[p].caller, start_datetime(unwrap(local[p])),
                   end_datetime(unwrap(local[p])))) :
          Finish(p, Ok(<<>>, <<s>>))
    /\ UNCHANGED <<storeVars, now, req>>

get_productivity_trend_handler(p, u, q) ==
    /\ Arrive(p, Request("productivity_trend", u, 0, 0, q))
    /\ LET range == calculate_date_range(q, date_naive(now))
       IN IF range.ok
          THEN GotoWith(p, "productivity_trend_query", Some(range))
          ELSE Finish(p, error_response(range.err))
    /\ UNCHANGED <<storeVars, now>>

productivity_trend_query(p) ==
    /\ pc[p] = "productivity_trend_query"
    /\ \E s \in order_date_asc(productivity_trend_rows(time_entries, req[p].caller,
                   start_datetime(unwrap(local[p])), end_datetime(unwrap(local[p])))) :
          Finish(p, Ok(<<>>, <<s>>))
    /\ UNCHANGED <<storeVars, now, req>>

---------------------------------------------------------------------------
(* The association manager: requests on tasks, labels and their associations, *)
(* statements of concurrent requests interleaved.                             *)

PlainTask == [project_id |-> None, title |-> 1, description |-> None,
              status |-> None, due_date |-> None, order |-> None]
LabelPayloads == {[name |-> n, color |-> None] : n \in Names}
PlainLabel == [name |-> 1, color |-> None]

AssocStep(p) ==
    \/ \E u \in Users : issued.tasks < MaxTasks /\ create_task_handler(p, u, PlainTask)
    \/ \E u \in Users, i \in TaskIds : delete_task_handler(p, u, i)
    \/ delete_task_row(p)
    \/ \E u \in Users, pl \in LabelPayloads :
          issued.labels < MaxLabels /\ create_label_handler(p, u, pl)
    \/ \E u \in Users, i \in LabelIds : delete_label_handler(p, u, i)
    \/ \E u \in Users, t \in TaskIds, l \in LabelIds : add_label_to_task_handler(p, u, t, l)
    \/ add_label_check(p)
    \/ add_label_existing(p)
    \/ add_label_insert(p)
    \/ \E u \in Users, t \in TaskIds : list_labels_for_task_handler(p, u, t)
    \/ list_labels_load(p)
    \/ \E u \in Users, t \in TaskIds, l \in LabelIds : remove_label_from_task_handler(p, u, t, l)
    \/ remove_label_delete(p)
    \/ Return(p)

Next == \E p \in Procs : AssocStep(p)

Spec == Init /\ [][Next]_vars

\* no request is in progress
Quiet == \A q \in Procs : pc[q] = "idle"

\* the same requests served one after the other: a request arrives when no other is
\* in progress, and its statements then run to completion
SeqStep(p) ==
    \/ \E u \in Users : Quiet /\ issued.tasks < MaxTasks /\ create_task_handler(p, u, PlainTask)
    \/ \E u \in Users, i \in TaskIds : Quiet /\ delete_task_handler(p, u, i)
    \/ delete_task_row(p)
    \/ \E u \in Users, pl \in LabelPayloads :
          Quiet /\ issued.labels < MaxLabels /\ create_label_handler(p, u, pl)
    \/ \E u \in Users, i \in LabelIds : Quiet /\ delete_label_handler(p, u, i)
    \/ \E u \in Users, t \in TaskIds, l \in LabelIds :
          Quiet /\ add_label_to_task_handler(p, u, t, l)
    \/ add_label_check(p)
    \/ add_label_existing(p)
    \/ add_label_insert(p)
    \/ \E u \in Users, t \in TaskIds : Quiet /\ list_labels_for_task_handler(p, u, t)
    \/ list_labels_load(p)
    \/ \E u \in Users, t \in TaskIds, l \in LabelIds :
          Quiet /\ remove_label_from_task_handler(p, u, t, l)
    \/ remove_label_delete(p)
    \/ Return(p)

NextSeq == \E p \in Procs : SeqStep(p)

SpecSeq == Init /\ [][NextSeq]_vars

\* the requests that race in the association manager: deletes against addLabel
RaceStep(p) ==
    \/ \E u \in Users : issued.tasks < MaxTasks /\ create_task_handler(p, u, PlainTask)
    \/ \E u \in Users, i \in TaskIds : delete_task_handler(p, u, i)
    \/ delete_task_row(p)
    \/ \E u \in Users : issued.labels < MaxLabels /\ create_label_handler(p, u, PlainLabel)
    \/ \E u \in Users, i \in LabelIds : delete_label_handler(p, u, i)
    \/ \E u \in Users, t \in TaskIds, l \in LabelIds : add_label_to_task_handler(p, u, t, l)
    \/ add_label_check(p)
    \/ add_label_existing(p)
    \/ add_label_insert(p)
    \/ Return(p)

NextRace == \E p \in Procs : RaceStep(p)

SpecRace == Init /\ [][NextRace]_vars

---------------------------------------------------------------------------
(* The owned-row services: create, get, update and delete on the four tables, *)
(* requests served one after the other by one worker.                         *)

\* the JSON object without keys
EmptyPayload == [k \in {} |-> JNull]

ProjectCreates == {[name |-> 1, color |-> c] : c \in {None, Some(1)}}
ProjectUpdates == {EmptyPayload} \cup {"color" :> j : j \in {JNull, JVal(1)}}

LabelCreates == {[name |-> 1, color |-> c] : c \in {None, Some(1)}}
LabelUpdates == {EmptyPayload} \cup {"color" :> j : j \in {JNull, JVal(1)}}

FullTask == [project_id |-> Some(1), title |-> 1, description |-> Some(1),
             status |-> None, due_date |-> Some(1), order |-> Some(1)]
TaskCreates == {PlainTask, FullTask}
TaskNullable == {"project_id", "description", "due_date", "order"}
TaskUpdates == {EmptyPayload} \cup {f :> j : f \in TaskNullable, j \in {JNull, JVal(1)}}

EntryCreates ==
    {[task_id |-> 1, start_time |-> Seconds(1), end_time |-> e, duration_seconds |-> d,
      is_pomodoro_session |-> None] : e \in {None, Some(Seconds(2))}, d \in {None, Some(5)}}
EntryUpdates ==
    {EmptyPayload}
    \cup {"end_time" :> j : j \in {JNull, JVal(Seconds(1)), JVal(Seconds(2))}}
    \cup {"duration_seconds" :> j : j \in {JNull, JVal(5)}}
    \cup {("end_time" :> JVal(Seconds(2))) @@ ("duration_seconds" :> j) : j \in {JNull, JVal(5)}}

CrudStep(p) ==
    \/ \E u \in Users, pl \in ProjectCreates :
          Quiet /\ issued.projects < MaxRows /\ create_project_handler(p, u, pl)
    \/ \E u \in Users, i \in RowIds : Quiet /\ get_project_handler(p, u, i)
    \/ \E u \in Users, i \in RowIds, pl \in ProjectUpdates :
          Quiet /\ update_project_handler(p, u, i, pl)
    \/ \E u \in Users, i \in RowIds : Quiet /\ delete_project_handler(p, u, i)
    \/ \E u \in Users, pl \in LabelCreates :
          Quiet /\ issued.labels < MaxRows /\ create_label_handler(p, u, pl)
    \/ \E u \in Users, i \in RowIds : Quiet /\ get_label_handler(p, u, i)
    \/ \E u \in Users, i \in RowIds, pl \in LabelUpdates :
          Quiet /\ update_label_handler(p, u, i, pl)
    \/ \E u \in Users, i \in RowIds : Quiet /\ delete_label_handler(p, u, i)
    \/ \E u \in Users, pl \in TaskCreates :
          Quiet /\ issued.tasks < MaxRows /\ create_task_handler(p, u, pl)
    \/ \E u \in Users, i \in RowIds : Quiet /\ get_task_handler(p, u, i)
    \/ \E u \in Users, i \in RowIds, pl \in TaskUpdates :
          Quiet /\ update_task_handler(p, u, i, pl)
    \/ task_labels_load(p)
    \/ \E u \in Users, i \in RowIds : Quiet /\ delete_task_handler(p, u, i)
    \/ delete_task_row(p)
    \/ \E u \in Users, pl \in EntryCreates :
          Quiet /\ issued.time_entries < MaxRows /\ create_time_entry_handler(p, u, pl)
    \/ create_time_entry_insert(p)
    \/ \E u \in Users, i \in RowIds : Quiet /\ get_time_entry_handler(p, u, i)
    \/ \E u \in Users, i \in RowIds, pl \in EntryUpdates :
          Quiet /\ update_time_entry_handler(p, u, i, pl)
    \/ update_time_entry_write(p)
    \/ \E u \in Users, i \in RowIds : Quiet /\ delete_time_entry_handler(p, u, i)
    \/ Return(p)

NextCrud == CrudStep(1)

SpecCrud == Init /\ [][NextCrud]_vars

---------------------------------------------------------------------------
(* Updates and toggles of one row while time passes: requests served one after *)
(* the other by one worker, over a store that holds at most MaxRows rows.      *)

OtherTask == [PlainTask EXCEPT !.status = Some("in_progress")]
FrameTaskCreates == {PlainTask, FullTask, OtherTask}
FrameTaskUpdates ==
    {EmptyPayload, "title" :> JVal(2), "title" :> JNull, "status" :> JVal("in_progress"),
     "description" :> JNull, "description" :> JVal(2),
     ("title" :> JVal(2)) @@ ("due_date" :> JNull)}
FrameNamedUpdates ==
    {EmptyPayload, "name" :> JVal(2), "name" :> JNull, "color" :> JNull, "color" :> JVal(2),
     ("name" :> JVal(2)) @@ ("color" :> JVal(2))}

\* the store has room for one more row
RoomForRow == issued.projects + issued.tasks + issued.labels < MaxRows

FrameStep(p) ==
    \/ \E u \in Users, pl \in ProjectCreates :
          Quiet /\ RoomForRow /\ create_project_handler(p, u, pl)
    \/ \E u \in Users, i \in RowIds, pl \in FrameNamedUpdates :
          Quiet /\ update_project_handler(p, u, i, pl)
    \/ \E u \in Users, pl \in LabelCreates :
          Quiet /\ RoomForRow /\ create_label_handler(p, u, pl)
    \/ \E u \in Users, i \in RowIds, pl \in FrameNamedUpdates :
          Quiet /\ update_label_handler(p, u, i, pl)
    \/ \E u \in Users, pl \in FrameTaskCreates :
          Quiet /\ RoomForRow /\ create_task_handler(p, u, pl)
    \/ \E u \in Users, i \in RowIds, pl \in FrameTaskUpdates :
          Quiet /\ update_task_handler(p, u, i, pl)
    \/ \E u \in Users, i \in RowIds : Quiet /\ toggle_task_completion_handler(p, u, i)
    \/ toggle_update(p)
    \/ task_labels_load(p)
    \/ Return(p)

NextFrame == Tick \/ FrameStep(1)

SpecFrame == Init /\ [][NextFrame]_vars

---------------------------------------------------------------------------
(* Time entries of one task: created and updated with start and end times, by   *)
(* requests served one after the other.                                         *)

\* i32::MAX at the width as_i32 gives i32
I32Max == 32767

\* an end_time more than I32Max seconds after the start
FarEnd == Seconds(1) + Seconds(I32Max + 1)

TimedCreates ==
    {[task_id |-> 1, start_time |-> Seconds(1), end_time |-> e, duration_seconds |-> d,
      is_pomodoro_session |-> None] :
        e \in {None, Some(Seconds(1)), Some(Seconds(1) + 1), Some(Seconds(3)), Some(FarEnd)},
        d \in {None, Some(5)}}
TimedUpdates ==
    {EmptyPayload, "end_time" :> JVal(Seconds(4)), "end_time" :> JNull,
     "start_time" :> JVal(Seconds(2)),
     ("start_time" :> JVal(Seconds(2))) @@ ("end_time" :> JVal(Seconds(4))),
     ("end_time" :> JVal(Seconds(4))) @@ ("duration_seconds" :> JVal(5)),
     "duration_seconds" :> JNull, "duration_seconds" :> JVal(5),
     ("end_time" :> JVal(Seconds(4))) @@ ("duration_seconds" :> JNull),
     ("end_time" :> JVal(Seconds(1))) @@ ("duration_seconds" :> JNull),
     ("end_time" :> JNull) @@ ("duration_seconds" :> JNull),
     ("end_time" :> JNull) @@ ("duration_seconds" :> JVal(5))}

EntryStep(p) ==
    \/ \E u \in Users :
          Quiet /\ issued.tasks < MaxRows /\ create_task_handler(p, u, PlainTask)
    \/ \E u \in Users, pl \in TimedCreates :
          Quiet /\ issued.time_entries < MaxRows /\ create_time_entry_handler(p, u, pl)
    \/ create_time_entry_insert(p)
    \/ \E u \in Users, i \in RowIds, pl \in TimedUpdates :
          Quiet /\ update_time_entry_handler(p, u, i, pl)
    \/ update_time_entry_write(p)
    \/ \E u \in Users, i \in RowIds : Quiet /\ get_time_entry_handler(p, u, i)
    \/ Return(p)

NextEntry == Tick \/ EntryStep(1)

SpecEntry == Init /\ [][NextEntry]_vars

---------------------------------------------------------------------------
(* Task listing: tasks are created while time passes and listed page by page.  *)
(* A request starts when no other is in progress; a response stays with its    *)
(* worker until it is returned, and no task is created in the meantime.        *)

ListQueries ==
    {TaskQueryParams(None, None, pg, pp) :
        pg \in {None, Some(0), Some(1), Some(2), Some(I64Max)},
        pp \in {None, Some(-1), Some(0), Some(1), Some(I64Max)}}
    \cup {TaskQueryParams(None, Some("pending"), Some(1), pp) : pp \in {None, Some(1)}}

NoOtherInProgress(p) == \A q \in Procs \ {p} : ~InProgress(q)

ListStep(p) ==
    \/ \E u \in Users, pl \in {PlainTask, OtherTask} :
          Quiet /\ issued.tasks < MaxTasks /\ create_task_handler(p, u, pl)
    \/ \E q \in ListQueries : NoOtherInProgress(p) /\ list_tasks_handler(p, "A", q)
    \/ list_tasks_load(p)
    \/ list_tasks_labels(p)
    \/ Return(p)

NextList == Tick \/ \E p \in Procs : ListStep(p)

SpecList == Init /\ [][NextList]_vars

---------------------------------------------------------------------------
(* The time-window resolver on every day of two years, one of them a leap year: *)
(* the server starts at some instant of those years and answers analytics       *)
(* requests.                                                                    *)

\* the clock starts within MaxDay days of its origin
MaxDay == 730

Instants == {d * TicksPerDay + o : d \in 0..MaxDay, o \in {0, TicksPerDay - 1}}

InitWindow ==
    /\ projects = <<>>
    /\ tasks = <<>>
    /\ labels = <<>>
    /\ task_labels = {}
    /\ time_entries = <<>>
    /\ issued = [projects |-> 0, tasks |-> 0, labels |-> 0, time_entries |-> 0]
    /\ now \in Instants
    /\ pc = [p \in Procs |-> "idle"]
    /\ req = [p \in Procs |-> NoReq]
    /\ resp = [p \in Procs |-> NoResp]
    /\ local = [p \in Procs |-> None]

\* two dates of the query string, the first before the second
EarlyDate == from_ymd(2023, 6, 1)
LateDate == from_ymd(2023, 6, 30)

WindowQueries ==
    {AnalyticsQueryPeriod(pd, sd, ed) :
        pd \in {None, Some("this_week"), Some("last_7_days"), Some("this_month"),
                Some("last_30_days"), Some("last_year")},
        sd \in {None, Some(EarlyDate), Some(LateDate)},
        ed \in {None, Some(EarlyDate), Some(LateDate)}}

WindowStep(p) ==
    \/ \E q \in WindowQueries : get_time_by_project_handler(p, "A", q)
    \/ time_by_project_query(p)
    \/ \E q \in WindowQueries : get_productivity_trend_handler(p, "A", q)
    \/ productivity_trend_query(p)
    \/ Return(p)

NextWindow == WindowStep(1)

SpecWindow == InitWindow /\ [][NextWindow]_vars

---------------------------------------------------------------------------
(* Analytics over time entries that start around the bounds of a one-day window: *)
(* a project, a task and its time entries are created, then aggregated.          *)

MaxEntries == 2

\* the day of the window, and the days before and after it
WindowDay == ClockOrigin + 1

\* start times at both bounds of WindowDay, one tick inside and one tick outside
BoundaryInstants ==
    {and_hms(WindowDay, 0, 0, 0) - 1, and_hms(WindowDay, 0, 0, 0),
     and_hms(WindowDay, 23, 59, 59), and_hms(WindowDay, 23, 59, 59) + 1,
     and_hms(WindowDay + 1, 0, 0, 0)}

BoundaryEntries ==
    {[task_id |-> 1, start_time |-> t, end_time |-> None, duration_seconds |-> d,
      is_pomodoro_session |-> None] : t \in BoundaryInstants, d \in {None, Some(5)}}

ProjectTask == [PlainTask EXCEPT !.project_id = Some(1)]

AnalyticsQueries ==
    {AnalyticsQueryPeriod(None, Some(WindowDay), Some(WindowDay)),
     AnalyticsQueryPeriod(None, Some(WindowDay - 1), Some(WindowDay + 1)),
     AnalyticsQueryPeriod(Some("this_week"), None, None)}

AnalyticsStep(p) ==
    \/ \E u \in Users :
          Quiet /\ issued.projects < MaxRows
                /\ create_project_handler(p, u, [name |-> 1, color |-> None])
    \/ \E u \in Users, pl \in {PlainTask, ProjectTask} :
          Quiet /\ issued.tasks < MaxRows /\ create_task_handler(p, u, pl)
    \/ \E u \in Users, pl \in BoundaryEntries :
          Quiet /\ issued.time_entries < MaxEntries /\ create_time_entry_handler(p, u, pl)
    \/ create_time_entry_insert(p)
    \/ \E u \in Users, q \in AnalyticsQueries : Quiet /\ get_time_by_project_handler(p, u, q)
    \/ time_by_project_query(p)
    \/ \E u \in Users, q \in AnalyticsQueries : Quiet /\ get_productivity_trend_handler(p, u, q)
    \/ productivity_trend_query(p)
    \/ Return(p)

NextAnalytics == AnalyticsStep(1)

SpecAnalytics == Init /\ [][NextAnalytics]_vars

---------------------------------------------------------------------------
(* Aggregation: projects, tasks that name a project or none, and time entries   *)
(* on two days of a window and on the day after it, created by either identity *)
(* and then aggregated over the two-day window.                                 *)

MaxProjects == 2

ProjectIds == 1..MaxProjects

\* tasks with any project id, or none
ReferringTasks == {[PlainTask EXCEPT !.project_id = o] : o \in {None} \cup {Some(i) : i \in ProjectIds}}

SpreadEntries ==
    {[task_id |-> t, start_time |-> s, end_time |-> None, duration_seconds |-> d,
      is_pomodoro_session |-> None] :
        t \in TaskIds,
        s \in {and_hms(WindowDay, 0, 0, 0), and_hms(WindowDay + 1, 12, 0, 0),
               and_hms(WindowDay + 2, 0, 0, 0)},
        d \in {None, Some(5), Some(7)}}

TwoDayWindow == AnalyticsQueryPeriod(None, Some(WindowDay), Some(WindowDay + 1))

TotalsStep(p) ==
    \/ \E u \in Users :
          Quiet /\ issued.projects < MaxProjects
                /\ create_project_handler(p, u, [name |-> 1, color |-> None])
    \/ \E u \in Users, pl \in ReferringTasks :
          Quiet /\ issued.tasks < MaxTasks /\ create_task_handler(p, u, pl)
    \/ \E u \in Users, pl \in SpreadEntries :
          Quiet /\ issued.time_entries < MaxEntries /\ create_time_entry_handler(p, u, pl)
    \/ create_time_entry_insert(p)
    \/ \E u \in Users : Quiet /\ get_time_by_project_handler(p, u, TwoDayWindow)
    \/ time_by_project_query(p)
    \/ \E u \in Users : Quiet /\ get_productivity_trend_handler(p, u, TwoDayWindow)
    \/ productivity_trend_query(p)
    \/ Return(p)

NextTotals == TotalsStep(1)

SpecTotals == Init /\ [][NextTotals]_vars

---------------------------------------------------------------------------
(* Time entries against task deletion: two workers create tasks, create time *)
(* entries on them and delete tasks, their statements interleaved.            *)

OpenEntries ==
    {[task_id |-> t, start_time |-> 0, end_time |-> None, duration_seconds |-> None,
      is_pomodoro_session |-> None] : t \in TaskIds}

EntryRaceStep(p) ==
    \/ \E u \in Users : issued.tasks < MaxTasks /\ create_task_handler(p, u, PlainTask)
    \/ \E u \in Users, i \in TaskIds : delete_task_handler(p, u, i)
    \/ delete_task_row(p)
    \/ \E u \in Users, pl \in OpenEntries :
          issued.time_entries < MaxEntries /\ create_time_entry_handler(p, u, pl)
    \/ create_time_entry_insert(p)
    \/ Return(p)

NextEntryRace == \E p \in Procs : EntryRaceStep(p)

SpecEntryRace == Init /\ [][NextEntryRace]_vars

---------------------------------------------------------------------------
(* Toggles of one task by two workers, their statements interleaved. *)

ToggleRaceStep(p) ==
    \/ \E u \in Users : issued.tasks < MaxRows /\ create_task_handler(p, u, PlainTask)
    \/ \E u \in Users, i \in RowIds : toggle_task_completion_handler(p, u, i)
    \/ toggle_update(p)
    \/ task_labels_load(p)
    \/ Return(p)

NextToggleRace == \E p \in Procs : ToggleRaceStep(p)

SpecToggleRace == Init /\ [][NextToggleRace]_vars

---------------------------------------------------------------------------
(* Failures: requests with any X-User-Id header, and handlers that fail with any *)
(* ServiceError, built directly or converted from a storage or pool error.       *)

Headers ==
    {None, Some(HeaderValue(FALSE, "")), Some(HeaderValue(TRUE, "")),
     Some(HeaderValue(TRUE, "not-a-uuid"))} \cup {Some(HeaderValue(TRUE, u)) : u \in Users}

\* an internal detail, as a storage or pool error words it
Detail == <<"connection to server at 10.0.0.5 failed">>

DieselErrors == {DieselNotFound, "DeserializationError"} \cup DieselDatabaseErrors

RaisedErrors ==
    {InternalServerError(Detail), BadRequest(Detail), Unauthorized(Detail),
     DatabaseError(Detail), NotFound(Detail), PoolError(Detail), ValidationError(Detail),
     ConflictError(Detail)}
    \cup {from_diesel_error(e) : e \in DieselErrors}
    \cup {from_run_error(e) : e \in {RunTimedOut, RunUser(Detail)}}

ErrorsStep(p) ==
    \/ \E h \in Headers : extract_identity(p, h)
    \/ \E e \in RaisedErrors : handler_fails(p, e)
    \/ render_error(p)
    \/ Return(p)

NextErrors == \E p \in Procs : ErrorsStep(p)

SpecErrors == Init /\ [][NextErrors]_vars

---------------------------------------------------------------------------
(* The pool: more workers than handles. Every request awaits pool.get() before *)
(* its handler's statements; createTask has one statement, deleteTask two.      *)

PoolStep(p) ==
    \/ \E u \in Users : pool_get(p, Request("create_task", u, 0, 0, PlainTask))
    \/ \E u \in Users, i \in RowIds : pool_get(p, Request("delete_task", u, i, 0, <<>>))
    \/ \E u \in Users :
          pc[p] = "pool_get" /\ issued.tasks < MaxRows /\ create_task_handler(p, u, PlainTask)
    \/ \E u \in Users, i \in RowIds : pc[p] = "pool_get" /\ delete_task_handler(p, u, i)
    \/ delete_task_row(p)
    \/ \E e \in {RunTimedOut, RunUser("connection refused")} : pool_get_fails(p, e)
    \/ Return(p)

NextPool == \E p \in Procs : PoolStep(p)

\* the runtime polls every handler that can go on: an awaited pool.get() answers, with
\* a handle or with the timeout, and storage answers every statement
SpecPool ==
    Init /\ [][NextPool]_vars /\ \A p \in Procs : WF_vars(InProgress(p) /\ PoolStep(p))

---------------------------------------------------------------------------
(* Properties of the ownership guard and of the association manager *)

\* process p takes a step of the request it serves
Steps(p) == pc'[p] # pc[p] /\ req'[p].op # "none"

\* process p returns from its handler in this step
Returns(p) == pc[p] # "done" /\ pc'[p] = "done"

Owns(tbl, i, u) == i \in DOMAIN tbl /\ tbl[i].user_id = u

RowsOf(tbl, u) == {tbl[i] : i \in {j \in DOMAIN tbl : tbl[j].user_id = u}}

\* the association rows of the tasks of u
AssociationsOf(u) == {r \in task_labels : Owns(tasks, r.task_id, u)}

\* all that storage holds for u
StorageOf(u) ==
    <<RowsOf(projects, u), RowsOf(tasks, u), RowsOf(labels, u), RowsOf(time_entries, u),
      AssociationsOf(u)>>

AssocOps == {"add_label", "list_labels", "remove_label"}

GetOps == {"get_project", "get_label", "get_task", "get_time_entry"}
UpdateOps == {"update_project", "update_label", "update_task", "update_time_entry"}
DeleteOps == {"delete_project", "delete_label", "delete_task", "delete_time_entry"}

\* of the four tables given, the one a get, update or delete request addresses
Tables(op, pr, lb, tk, te) ==
    CASE op \in {"get_project", "update_project", "delete_project"} -> pr
      [] op \in {"get_label", "update_label", "delete_label"} -> lb
      [] op \in {"get_task", "update_task", "delete_task"} -> tk
      [] op \in {"get_time_entry", "update_time_entry", "delete_time_entry"} -> te

TableOf(op) == Tables(op, projects, labels, tasks, time_entries)

\* table tbl without the row of id i
Absent(tbl, i) == [j \in DOMAIN tbl \ {i} |-> tbl[j]]

\* what the handler of request r answers over storage that holds no row under r.id
OutcomeIfAbsent(r) ==
    LET i == r.id
        u == r.caller
        tbl == Absent(TableOf(r.op), i)
    IN CASE r.op = "get_project" -> get_project_response(get_project_stmt(tbl, i, u), i)
         [] r.op = "update_project" ->
              update_response(tbl, update_project_stmt(tbl, i, u,
                  UpdateProjectChangeset(UpdateProjectPayload(r.payload), now)), i, u)
         [] r.op = "delete_project" ->
              delete_project_response(num_deleted(tbl, delete_project_stmt(tbl, i, u)), i)
         [] r.op = "get_label" -> get_label_response(get_label_stmt(tbl, i, u), i)
         [] r.op = "update_label" ->
              update_response(tbl, update_label_stmt(tbl, i, u,
                  UpdateLabelChangeset(UpdateLabelPayload(r.payload), now)), i, u)
         [] r.op = "delete_label" ->
              delete_label_response(num_deleted(tbl, delete_label_stmt(tbl, i, u)), i)
         [] r.op = "get_task" -> get_task_response(get_task_stmt(tbl, i, u), i, <<>>)
         [] r.op = "update_task" ->
              update_response(tbl, update_task_stmt(tbl, i, u,
                  UpdateTaskChangeset(UpdateTaskPayload(r.payload), now)), i, u)
         [] r.op = "delete_task" ->
              delete_task_response(num_deleted(tbl, delete_task_stmt(tbl, i, u)), i)
         [] r.op = "get_time_entry" ->
              get_time_entry_response(get_time_entry_stmt(tbl, i, u), i)
         [] r.op = "update_time_entry" ->
              update_time_entry_response(current_entry_start_time(tbl, i, u), tbl, tbl, i, u)
         [] r.op = "delete_time_entry" ->
              delete_time_entry_response(num_deleted(tbl, delete_time_entry_stmt(tbl, i, u)), i)

\* request r addresses a row that exists and belongs to another identity
NotOwnedRow(r) ==
    /\ r.op \in GetOps \cup UpdateOps \cup DeleteOps
    /\ r.id \in DOMAIN TableOf(r.op)
    /\ TableOf(r.op)[r.id].user_id # r.caller

\* C1: a get, update or delete of a project, task, label or time entry that exists
\* but belongs to another identity answers NotFound, and answers exactly what the
\* same request answers when no row has that id.
C1_NotOwnedAnswersAsAbsent ==
    [][\A p \in Procs :
          (Returns(p) /\ NotOwnedRow(req'[p]))
          => /\ resp'[p].status = 404
             /\ resp'[p] = OutcomeIfAbsent(req'[p])]_vars

\* an update of a time entry of somebody else was answered NotFound
C1_Witness ==
    \E p \in Procs :
        /\ pc[p] = "done"
        /\ req[p].op = "update_time_entry"
        /\ NotOwnedRow(req[p])
        /\ resp[p].status = 404

\* C2: no step of a request issued by one identity changes what storage holds for
\* another identity: its rows in the four tables and the association rows of its tasks.
C2_NoCrossTenantWrite ==
    [][\A p \in Procs : Steps(p) =>
          \A a \in Users \ {req'[p].caller} : StorageOf(a)' = StorageOf(a)]_vars

\* C3: whenever no handler is between two statements, every association row
\* references a task and a label that exist and belong to the same identity.
C3_AssociationsReferenceOwnedRows ==
    (\A p \in Procs : ~InProgress(p)) =>
        \A r \in task_labels :
            /\ r.task_id \in DOMAIN tasks
            /\ r.label_id \in DOMAIN labels
            /\ tasks[r.task_id].user_id = labels[r.label_id].user_id

DeleteTaskSucceeded(p) ==
    pc[p] = "done" /\ req[p].op = "delete_task" /\ resp[p].status = 200

NoAssociationOf(t) == \A r \in task_labels : r.task_id # t

\* C4: once deleteTask(t) has returned success no association row with
\* task id t exists, whatever ran concurrently.
C4_NoAssociationAfterDeleteTask ==
    \A p \in Procs : DeleteTaskSucceeded(p) => NoAssociationOf(req[p].id)

\* C5: an addLabel by the owner of the task and of the label returns success and
\* leaves the pair associated; when the pair was associated already (the second of
\* two calls) it answers 200 and writes nothing.
C5_AddLabelIdempotent ==
    [][\A p \in Procs :
          (/\ Returns(p)
           /\ req'[p].op = "add_label"
           /\ Owns(tasks, req'[p].id, req'[p].caller)
           /\ Owns(labels, req'[p].label_id, req'[p].caller))
          => LET row == NewTaskLabelAssociation(req'[p].id, req'[p].label_id)
             IN /\ resp'[p].status \in {200, 201}
                /\ row \in task_labels'
                /\ row \in task_labels =>
                     /\ task_labels' = task_labels
                     /\ resp'[p].status = 200]_vars

\* the second addLabel of a pair has answered: success, and the pair is there
C5_Witness ==
    \E p \in Procs :
        /\ pc[p] = "done"
        /\ req[p].op = "add_label"
        /\ resp[p] = Ok(<<"Label already associated with task", req[p].id, req[p].label_id>>, <<>>)
        /\ NewTaskLabelAssociation(req[p].id, req[p].label_id) \in task_labels

\* C6: the insert of addLabel does not look at the task or the label again: with
\* either of them deleted since the probes, it still inserts the pair and reports
\* success.
C6_InsertAfterConcurrentDelete ==
    [][\A p \in Procs :
          (/\ pc[p] = "add_label_insert"
           /\ Returns(p)
           /\ (req[p].id \notin DOMAIN tasks \/ req[p].label_id \notin DOMAIN labels)
           /\ NewTaskLabelAssociation(req[p].id, req[p].label_id) \notin task_labels)
          => /\ NewTaskLabelAssociation(req[p].id, req[p].label_id) \in task_labels'
             /\ resp'[p].status = 201]_vars

\* an addLabel reported success and its row references a task that is gone
C6_Witness ==
    \E p \in Procs :
        /\ pc[p] = "done"
        /\ req[p].op = "add_label"
        /\ resp[p].status = 201
        /\ NewTaskLabelAssociation(req[p].id, req[p].label_id) \in task_labels
        /\ req[p].id \notin DOMAIN tasks

\* C7: the three association requests answer NotFound when the task is not the
\* caller's, addLabel also when the label is not the caller's, and such a request
\* leaves the association rows as they were.
C7_NotOwnedIsNotFound ==
    [][\A p \in Procs :
          /\ (/\ pc[p] = "idle"
              /\ Steps(p)
              /\ req'[p].op \in AssocOps
              /\ ~Owns(tasks, req'[p].id, req'[p].caller))
             => /\ pc'[p] = "done"
                /\ resp'[p] = error_response(TaskNotOwned(req'[p].id))
                /\ resp'[p].status = 404
                /\ task_labels' = task_labels
          /\ (/\ pc[p] = "add_label_check"
              /\ Steps(p)
              /\ ~Owns(labels, req[p].label_id, req[p].caller))
             => /\ pc'[p] = "done"
                /\ resp'[p] = error_response(LabelNotOwned(req[p].label_id))
                /\ resp'[p].status = 404
                /\ task_labels' = task_labels]_vars

\* an addLabel on a task of somebody else, which has associations, was refused
C7_Witness ==
    \E p \in Procs :
        /\ pc[p] = "done"
        /\ req[p].op = "add_label"
        /\ resp[p].status = 404
        /\ req[p].id \in DOMAIN tasks
        /\ tasks[req[p].id].user_id # req[p].caller
        /\ ~NoAssociationOf(req[p].id)

\* C8: a removeLabel that fails answers what it answers for a task that does not
\* exist, whether the task or only the association is missing.
C8_RemoveLabelIndistinguishable ==
    \A p \in Procs :
        (pc[p] = "done" /\ req[p].op = "remove_label" /\ resp[p].status # 200)
        => resp[p] = error_response(TaskNotOwned(req[p].id))

SortedByName(s) == \A i, j \in 1..Len(s) : i < j => s[i].name <= s[j].name

\* C9: listLabels for a task of the caller returns exactly the labels associated
\* with the task, in ascending order of name.
C9_ListLabelsSortedByName ==
    \A p \in Procs :
        (pc[p] = "done" /\ req[p].op = "list_labels" /\ resp[p].status = 200)
        => /\ {resp[p].body[i] : i \in 1..Len(resp[p].body)}
                = labels_for_task(task_labels, labels, req[p].id)
           /\ Len(resp[p].body) = Cardinality(labels_for_task(task_labels, labels, req[p].id))
           /\ SortedByName(resp[p].body)

\* the nullable columns an update request can address
NullableFields(op) ==
    CASE op = "update_project" -> {"color"}
      [] op = "update_label" -> {"color"}
      [] op = "update_task" -> TaskNullable
      [] op = "update_time_entry" -> {"end_time", "duration_seconds"}

\* the payload of an update request as its handler deserializes it
Deserialized(r) ==
    CASE r.op = "update_project" -> UpdateProjectPayload(r.payload)
      [] r.op = "update_label" -> UpdateLabelPayload(r.payload)
      [] r.op = "update_task" -> UpdateTaskPayload(r.payload)
      [] r.op = "update_time_entry" -> UpdateTimeEntryPayload(r.payload)

\* process p runs the UPDATE statement of its request, on a row of the caller
UpdateWrites(p) ==
    /\ req'[p].op \in UpdateOps
    /\ Steps(p)
    /\ pc[p] = (IF req'[p].op = "update_time_entry" THEN "update_time_entry_write" ELSE "idle")
    /\ Owns(TableOf(req'[p].op), req'[p].id, req'[p].caller)

\* key f of payload pl translates to Unset, Clear or Assign(v) in d
Translates(pl, d, f) ==
    /\ f \notin DOMAIN pl => d[f] = None
    /\ f \in DOMAIN pl =>
         IF pl[f].null THEN d[f] = Some(None) ELSE d[f] = Some(Some(pl[f].v))

\* column f after the update: unchanged, empty, or the value of the payload
TriState(pl, f, old, new) ==
    /\ f \notin DOMAIN pl => new[f] = old[f]
    /\ f \in DOMAIN pl =>
         IF pl[f].null THEN new[f] = None ELSE new[f] = Some(pl[f].v)

\* C10: for every nullable update field, an absent key leaves the column
\* unchanged, null empties it and a value v makes it v.
C10_TriStateEveryField ==
    [][\A p \in Procs : UpdateWrites(p) =>
          LET r == req'[p]
          IN \A f \in NullableFields(r.op) :
                /\ Translates(r.payload, Deserialized(r), f)
                /\ TriState(r.payload, f, TableOf(r.op)[r.id],
                            Tables(r.op, projects', labels', tasks', time_entries')[r.id])]_vars

---------------------------------------------------------------------------
(* Properties of updates, toggles and time entries *)

\* C11: a successful update of a project, task or label by its owner sets updated_at
\* to the current time and changes no other column whose payload field is Unset (id,
\* owner and created_at among them); it succeeds also when every field is Unset.
C11_UpdateChangesOnlyNamedColumns ==
    [][\A p \in Procs :
          (UpdateWrites(p) /\ req'[p].op # "update_time_entry") =>
          LET r == req'[p]
              d == Deserialized(r)
              old == TableOf(r.op)[r.id]
              new == Tables(r.op, projects', labels', tasks', time_entries')[r.id]
          IN /\ IF r.op = "update_task" THEN pc'[p] = "task_labels_load"
                ELSE pc'[p] = "done" /\ resp'[p].status = 200
             /\ DOMAIN new = DOMAIN old
             /\ new.updated_at = now
             /\ \A c \in DOMAIN old \ {"updated_at"} :
                   (c \notin DOMAIN d \/ d[c] = None) => new[c] = old[c]]_vars

\* an update without any field succeeded on a row created earlier, and refreshed it
C11_Witness ==
    \E p \in Procs :
        /\ pc[p] = "done"
        /\ req[p].op = "update_task"
        /\ req[p].payload = EmptyPayload
        /\ resp[p].status = 200
        /\ tasks[req[p].id].updated_at > tasks[req[p].id].created_at

\* the toggle's write step of worker p on a task the caller owns
ToggleWrites(p) ==
    /\ pc[p] = "toggle_update"
    /\ Steps(p)
    /\ Owns(tasks, req[p].id, req[p].caller)

\* C14: toggling a task whose status is "completed" sets it to "pending", and toggling
\* a task with any other status sets it to "completed"; a second toggle of a task that
\* was "pending" or "completed" restores the status; the toggle changes no column other
\* than status and updated_at.
C14_ToggleFlipsStatusOnly ==
    [][\A p \in Procs :
          ToggleWrites(p) =>
          LET old == tasks[req[p].id]
              new == tasks'[req[p].id]
          IN /\ new.status = (IF old.status = "completed" THEN "pending" ELSE "completed")
             /\ old.status \in {"pending", "completed"} => new_status(new) = old.status
             /\ new.updated_at = now
             /\ \A c \in DOMAIN old \ {"status", "updated_at"} : new[c] = old[c]
             /\ DOMAIN new = DOMAIN old
             /\ pc'[p] = "task_labels_load"]_vars

\* a toggle answered with a task that is pending again: it was completed before
C14_Witness ==
    \E p \in Procs :
        /\ pc[p] = "done"
        /\ req[p].op = "toggle_task"
        /\ resp[p].status = 200
        /\ tasks[req[p].id].status = "pending"
        /\ unwrap(resp[p].body).task.status = "pending"

\* the whole seconds between two timestamps, start before end
WholeSeconds(start, end) == (end - start) \div TicksPerSecond

\* C12: createTimeEntry stores the supplied duration_seconds when there is one;
\* without one it stores end_time - start_time in whole seconds when end_time is
\* present and later than start_time, and no duration otherwise.
C12_CreateDerivesDuration ==
    [][\A p \in Procs :
          (pc[p] = "create_time_entry_insert" /\ Steps(p)) =>
          LET pl == req[p].payload
              row == time_entries'[issued'.time_entries]
          IN row.duration_seconds =
               (IF is_some(pl.duration_seconds) THEN pl.duration_seconds
                ELSE IF is_some(pl.end_time) /\ unwrap(pl.end_time) > pl.start_time
                     THEN Some(WholeSeconds(pl.start_time, unwrap(pl.end_time)))
                     ELSE None)]_vars

\* C13: an updateTimeEntry that assigns end_time and carries no duration_seconds
\* stores end_time - start_time, with the start_time the row has after the update,
\* whenever end_time is later than that start_time.
C13_UpdateDerivesFromStoredStart ==
    [][\A p \in Procs :
          (/\ UpdateWrites(p)
           /\ req[p].op = "update_time_entry"
           /\ "end_time" \in DOMAIN req[p].payload
           /\ ~req[p].payload["end_time"].null
           /\ "duration_seconds" \notin DOMAIN req[p].payload) =>
          LET end == req[p].payload["end_time"].v
              new == time_entries'[req[p].id]
          IN end > new.start_time =>
               new.duration_seconds = Some(WholeSeconds(new.start_time, end))]_vars

---------------------------------------------------------------------------
(* Properties of the task listing *)

\* the tasks of u that the filters of q select
Matching(tks, u, q) ==
    {i \in DOMAIN tks :
        /\ tks[i].user_id = u
        /\ is_some(q.project_id) => tks[i].project_id = q.project_id
        /\ is_some(q.status) => tks[i].status = unwrap(q.status)}

\* s lists the tasks of ids M once each, the latest created first
CreatedDescending(tks, M, s) ==
    /\ Len(s) = Cardinality(M)
    /\ {s[j].id : j \in 1..Len(s)} = M
    /\ \A j \in 1..Len(s) : s[j] = tks[s[j].id]
    /\ \A j \in 1..(Len(s) - 1) : s[j].created_at >= s[j + 1].created_at

\* response r is page pg, of pp tasks a page, of the tasks of u that q selects
IsPage(r, tks, u, q, pg, pp) ==
    LET M == Matching(tks, u, q)
        total == Cardinality(M)
        offset == (pg - 1) * pp
        last == IF offset + pp < total THEN offset + pp ELSE total
    IN /\ r.status = 200
       /\ is_some(r.body)
       /\ unwrap(r.body).total_items = total
       /\ unwrap(r.body).total_pages = (total + pp - 1) \div pp
       /\ unwrap(r.body).page = pg
       /\ unwrap(r.body).per_page = pp
       /\ \E s \in Orderings({tks[i] : i \in M}) :
             /\ CreatedDescending(tks, M, s)
             /\ Len(unwrap(r.body).items) = (IF last > offset THEN last - offset ELSE 0)
             /\ \A j \in 1..Len(unwrap(r.body).items) :
                   unwrap(r.body).items[j].task = s[offset + j]

\* the listing of worker p returns in this step
ListReturns(p) == Returns(p) /\ req'[p].op = "list_tasks"

\* a parameter as the listing is to take it: its default when absent or not positive
Effective(o, d) == IF is_some(o) /\ unwrap(o) > 0 THEN unwrap(o) ELSE d

\* C15: a task listing whose page or per_page is supplied as zero or negative does not
\* fail and answers as the listing with the default in its place (page 1, per_page 10).
C15_NonPositiveFallsBackToDefault ==
    [][\A p \in Procs :
          LET q == req'[p].payload
          IN (/\ ListReturns(p)
              /\ \/ is_some(q.page) /\ unwrap(q.page) <= 0
                 \/ is_some(q.per_page) /\ unwrap(q.per_page) <= 0) =>
             IsPage(resp'[p], tasks, req'[p].caller, q,
                    Effective(q.page, DefaultPage), Effective(q.per_page, DefaultPerPage))]_vars

\* the ids of the tasks in a listing's response
ListedIds(r) == {unwrap(r.body).items[j].task.id : j \in 1..Len(unwrap(r.body).items)}

\* two listings answered over the same tasks, with the same filters and page size
SameListing(p1, p2) ==
    /\ p1 # p2
    /\ pc[p1] = "done" /\ pc[p2] = "done"
    /\ req[p1].op = "list_tasks" /\ req[p2].op = "list_tasks"
    /\ resp[p1].status = 200 /\ resp[p2].status = 200
    /\ req[p1].caller = req[p2].caller
    /\ req[p1].payload.project_id = req[p2].payload.project_id
    /\ req[p1].payload.status = req[p2].payload.status
    /\ unwrap(resp[p1].body).per_page = unwrap(resp[p2].body).per_page

\* distinct pages of one listing share no task, and pages 1 and 2 of a listing of
\* two pages hold every matching task
PagesPartition ==
    \A p1, p2 \in Procs :
        (SameListing(p1, p2) /\ unwrap(resp[p1].body).page # unwrap(resp[p2].body).page) =>
        /\ ListedIds(resp[p1]) \cap ListedIds(resp[p2]) = {}
        /\ (/\ unwrap(resp[p1].body).total_pages = 2
            /\ {unwrap(resp[p1].body).page, unwrap(resp[p2].body).page} = {1, 2}) =>
           ListedIds(resp[p1]) \cup ListedIds(resp[p2])
             = Matching(tasks, req[p1].caller, req[p1].payload)

\* the listing of worker p returns in this step, and was asked for a positive page
\* (or none) of a positive size (or none)
PositiveListReturns(p) ==
    /\ ListReturns(p)
    /\ is_some(req'[p].payload.page) => unwrap(req'[p].payload.page) > 0
    /\ is_some(req'[p].payload.per_page) => unwrap(req'[p].payload.per_page) > 0

\* C16: a task listing with positive page and per_page, over tasks that do not change
\* meanwhile, answers total_pages = ceil(total_items / per_page) and the matching tasks
\* of the caller at positions offset+1 .. min(offset+per_page, total_items), latest
\* created first, with offset = (page-1)*per_page.
C16_PageOfCreatedDescending ==
    [][\A p \in Procs :
          PositiveListReturns(p) =>
          IsPage(resp'[p], tasks, req'[p].caller, req'[p].payload,
                 unwrap_or(req'[p].payload.page, DefaultPage),
                 unwrap_or(req'[p].payload.per_page, DefaultPerPage))]_vars

\* C16, the pages together: the pages of one listing contain every matching task
\* exactly once.
C16_PagesContainEveryTaskOnce == PagesPartition

---------------------------------------------------------------------------
(* Properties of the time-window resolver *)

\* the Gregorian calendar, by counting days
IsLeapYear(y) == (y % 4 = 0 /\ y % 100 # 0) \/ y % 400 = 0

DaysInMonth(y, m) ==
    CASE m \in {1, 3, 5, 7, 8, 10, 12} -> 31
      [] m \in {4, 6, 9, 11} -> 30
      [] m = 2 -> IF IsLeapYear(y) THEN 29 ELSE 28

RECURSIVE DaysBeforeMonth(_, _)
DaysBeforeMonth(y, m) == IF m = 1 THEN 0 ELSE DaysBeforeMonth(y, m - 1) + DaysInMonth(y, m - 1)

RECURSIVE DaysBeforeYear(_)
DaysBeforeYear(y) ==
    IF y = 1970 THEN 0 ELSE DaysBeforeYear(y - 1) + (IF IsLeapYear(y - 1) THEN 366 ELSE 365)

\* the date d/m/y, in days since 1970-01-01
DateOf(y, m, d) == DaysBeforeYear(y) + DaysBeforeMonth(y, m) + d - 1

\* the year and the month the date falls in
MonthOf(date) ==
    CHOOSE ym \in (2022..2025) \X (1..12) :
        /\ DateOf(ym[1], ym[2], 1) <= date
        /\ date <= DateOf(ym[1], ym[2], DaysInMonth(ym[1], ym[2]))

\* 2023-01-02 was a Monday
IsMonday(date) == (date - DateOf(2023, 1, 2)) % 7 = 0

Today == date_naive(now)

\* worker p takes an analytics request in this step and resolves its window
Resolves(p) ==
    /\ pc[p] = "idle"
    /\ pc'[p] # "idle"
    /\ req'[p].op \in {"time_by_project", "productivity_trend"}

\* the handler of p holds a resolved window and goes on to its query
Resolved(p) == pc[p] \in {"time_by_project_query", "productivity_trend_query"}

DatePair(q) == is_some(q.start_date) /\ is_some(q.end_date)

\* C17: on every date, this_month resolves to the first and the last day of the current
\* month, the last being the day before the first day of the next month (of the next
\* year's January in December), the 29th in the February of a leap year.
C17_ThisMonthWindow ==
    [][\A p \in Procs :
          (Resolves(p) /\ ~DatePair(req'[p].payload) /\ req'[p].payload.period = Some("this_month")) =>
          LET y == MonthOf(Today)[1]
              m == MonthOf(Today)[2]
          IN /\ Resolved(p)'
             /\ unwrap(local'[p]).start = DateOf(y, m, 1)
             /\ unwrap(local'[p]).end = DateOf(y, m, DaysInMonth(y, m))
             /\ unwrap(local'[p]).end + 1
                  = (IF m = 12 THEN DateOf(y + 1, 1, 1) ELSE DateOf(y, m + 1, 1))]_vars

\* this_month resolved on 2024-02-15: the window is 2024-02-01 .. 2024-02-29
C17_Witness ==
    \E p \in Procs :
        /\ Resolved(p)
        /\ req[p].payload.period = Some("this_month")
        /\ ~DatePair(req[p].payload)
        /\ Today = DateOf(2024, 2, 15)
        /\ unwrap(local[p]).start = DateOf(2024, 2, 1)
        /\ unwrap(local[p]).end = DateOf(2024, 2, 29)

\* C18: on every date, this_week, and a request with no period and no date pair,
\* resolve to a window that starts on a Monday, ends six days later and contains today.
C18_ThisWeekWindow ==
    [][\A p \in Procs :
          (/\ Resolves(p)
           /\ ~DatePair(req'[p].payload)
           /\ req'[p].payload.period \in {None, Some("this_week")}) =>
          /\ Resolved(p)'
          /\ IsMonday(unwrap(local'[p]).start)
          /\ unwrap(local'[p]).end = unwrap(local'[p]).start + 6
          /\ unwrap(local'[p]).start <= Today
          /\ Today <= unwrap(local'[p]).end]_vars

\* no period and no date given on Sunday 2023-01-01: the week began on 2022-12-26
C18_Witness ==
    \E p \in Procs :
        /\ Resolved(p)
        /\ req[p].payload = AnalyticsQueryPeriod(None, None, None)
        /\ Today = DateOf(2023, 1, 1)
        /\ unwrap(local[p]).start = DateOf(2022, 12, 26)
        /\ unwrap(local[p]).end = Today

SupportedPeriods == {"this_week", "last_7_days", "this_month", "last_30_days"}

\* the requests the resolver is to refuse
Refused(q) ==
    \/ DatePair(q) /\ unwrap(q.start_date) > unwrap(q.end_date)
    \/ ~DatePair(q) /\ is_some(q.period) /\ unwrap(q.period) \notin SupportedPeriods

\* C19: the resolver fails with BadRequest, before any query, when both dates are given
\* with start_date after end_date, and when no date pair is given and the period is a
\* string other than the four supported ones; otherwise it succeeds with start <= end.
C19_ResolverRefusals ==
    [][\A p \in Procs :
          Resolves(p) =>
          IF Refused(req'[p].payload)
          THEN /\ pc'[p] = "done"
               /\ resp'[p].status = 400
               /\ UNCHANGED storeVars
          ELSE /\ Resolved(p)'
               /\ unwrap(local'[p]).start <= unwrap(local'[p]).end]_vars

\* a date pair in the wrong order was answered with 400
C19_Witness ==
    \E p \in Procs :
        /\ pc[p] = "done"
        /\ req[p].op = "time_by_project"
        /\ req[p].payload.start_date = Some(LateDate)
        /\ req[p].payload.end_date = Some(EarlyDate)
        /\ resp[p].status = 400

\* the entries of u whose start_time falls on a day of window w
EntriesOfWindow(u, w) ==
    {time_entries[i] : i \in {j \in DOMAIN time_entries :
        /\ time_entries[j].user_id = u
        /\ w.start <= date_naive(time_entries[j].start_time)
        /\ date_naive(time_entries[j].start_time) <= w.end}}

\* the rows of a response, as a set
Rows(r) == {unwrap(r.body)[j] : j \in 1..Len(unwrap(r.body))}

\* the trend over the entries E: a point for each day an entry of E starts on
TrendOf(E) ==
    {ProductivityTrendPoint(d, coalesce_zero(sum_duration({e \in E : date_naive(e.start_time) = d}))) :
        d \in {date_naive(e.start_time) : e \in E}}

\* the totals by project over the entries E: a row for each project of a task of E
ByProjectOf(E) ==
    LET J == {e \in E : joins_project(e, tasks, projects)}
    IN {TimeByProjectStat(i, projects[i].name, coalesce_zero(sum_duration(
            {e \in J : unwrap(tasks[e.task_id].project_id) = i}))) :
          i \in {unwrap(tasks[e.task_id].project_id) : e \in J}}

\* C20: both analytics queries aggregate exactly the caller's time entries that start
\* within the resolved window, from 00:00:00 of its first day to the end of its last
\* day: an entry that starts anywhere within the end date is included, an entry
\* outside the window is not.
C20_WindowCoversWholeEndDate ==
    [][\A p \in Procs :
          (Resolved(p) /\ Returns(p)) =>
          LET E == EntriesOfWindow(req[p].caller, unwrap(local[p]))
          IN /\ resp'[p].status = 200
             /\ Rows(resp'[p]) = (IF req[p].op = "productivity_trend"
                                  THEN TrendOf(E) ELSE ByProjectOf(E))]_vars

---------------------------------------------------------------------------
(* Further properties of the time-window resolver *)

\* exactly one of the two dates is given
OneDate(q) == is_some(q.start_date) # is_some(q.end_date)

\* the window the period selector of q alone stands for on this date, if any
WindowOfPeriod(q, today) ==
    LET monday == today - ((today - DateOf(2023, 1, 2)) % 7)
        ym == MonthOf(today)
    IN CASE q.period \in {None, Some("this_week")} -> Some([start |-> monday, end |-> monday + 6])
         [] q.period = Some("last_7_days") -> Some([start |-> today - 6, end |-> today])
         [] q.period = Some("last_30_days") -> Some([start |-> today - 29, end |-> today])
         [] q.period = Some("this_month") ->
              Some([start |-> DateOf(ym[1], ym[2], 1),
                    end |-> DateOf(ym[1], ym[2], DaysInMonth(ym[1], ym[2]))])
         [] OTHER -> None

\* C30: a date pair with start_date <= end_date is the window, whatever the period
\* selector is, an unsupported one included; a single date is ignored, and the period
\* selector, or the this_week default, determines the window.
C30_DatePairTakesPrecedence ==
    [][\A p \in Procs :
          Resolves(p) =>
          LET q == req'[p].payload
              w == WindowOfPeriod(q, Today)
          IN /\ (DatePair(q) /\ unwrap(q.start_date) <= unwrap(q.end_date)) =>
                  /\ Resolved(p)'
                  /\ unwrap(local'[p]).start = unwrap(q.start_date)
                  /\ unwrap(local'[p]).end = unwrap(q.end_date)
             /\ OneDate(q) =>
                  IF is_some(w)
                  THEN /\ Resolved(p)'
                       /\ unwrap(local'[p]).start = unwrap(w).start
                       /\ unwrap(local'[p]).end = unwrap(w).end
                  ELSE pc'[p] = "done" /\ resp'[p].status = 400]_vars

\* a date pair given with an unsupported period was resolved to the pair
C30_Witness ==
    \E p \in Procs :
        /\ Resolved(p)
        /\ req[p].payload = AnalyticsQueryPeriod(Some("last_year"), Some(EarlyDate), Some(LateDate))
        /\ unwrap(local[p]).start = EarlyDate
        /\ unwrap(local[p]).end = LateDate

---------------------------------------------------------------------------
(* Further properties of time entries *)

\* the payload assigns an end_time later than start
EndsAfter(pl, start) ==
    /\ "end_time" \in DOMAIN pl
    /\ ~pl["end_time"].null
    /\ pl["end_time"].v > start

\* C29: updateTimeEntry stores a supplied duration_seconds as supplied whatever end_time
\* is; an explicit null duration_seconds with an end_time later than the stored
\* start_time stores the derived duration instead of clearing the column; an explicit
\* null with end_time absent, null or not later than the stored start_time clears it.
C29_ExplicitNullDuration ==
    [][\A p \in Procs :
          (/\ UpdateWrites(p)
           /\ req[p].op = "update_time_entry"
           /\ "duration_seconds" \in DOMAIN req[p].payload) =>
          LET pl == req[p].payload
              old == time_entries[req[p].id]
              new == time_entries'[req[p].id]
          IN IF ~pl["duration_seconds"].null
             THEN new.duration_seconds = Some(pl["duration_seconds"].v)
             ELSE IF EndsAfter(pl, old.start_time)
             THEN /\ is_some(new.duration_seconds)
                  /\ WholeSeconds(old.start_time, pl["end_time"].v) <= I32Max =>
                       new.duration_seconds
                         = Some(WholeSeconds(old.start_time, pl["end_time"].v))
             ELSE new.duration_seconds = None]_vars

\* an update with a null duration_seconds and a later end_time stored a duration
C29_Witness ==
    \E p \in Procs :
        /\ pc[p] = "done"
        /\ req[p].op = "update_time_entry"
        /\ req[p].payload = ("end_time" :> JVal(Seconds(4))) @@ ("duration_seconds" :> JNull)
        /\ resp[p].status = 200
        /\ is_some(time_entries[req[p].id].duration_seconds)

---------------------------------------------------------------------------
(* Properties of the aggregations *)

\* the ids of the time entries of u that start within the datetime bounds of window w
EntryIdsIn(u, w) ==
    {i \in DOMAIN time_entries :
        /\ time_entries[i].user_id = u
        /\ and_hms(w.start, 0, 0, 0) <= time_entries[i].start_time
        /\ time_entries[i].start_time <= and_hms(w.end, 23, 59, 59)}

\* the project reached through the task of entry i, if there is one
ProjectReached(i) ==
    LET t == time_entries[i].task_id
    IN IF t \in DOMAIN tasks /\ is_some(tasks[t].project_id)
          /\ unwrap(tasks[t].project_id) \in DOMAIN projects
       THEN tasks[t].project_id
       ELSE None

\* the sum of the durations of the entries of ids I, an absent duration counting 0
RECURSIVE DurationTotal(_)
DurationTotal(I) ==
    IF I = {} THEN 0
    ELSE LET i == CHOOSE x \in I : TRUE
         IN (IF is_some(time_entries[i].duration_seconds)
             THEN unwrap(time_entries[i].duration_seconds) ELSE 0)
            + DurationTotal(I \ {i})

\* the by-project aggregation of worker p returns in this step
ByProjectReturns(p) == pc[p] = "time_by_project_query" /\ Returns(p)

\* C21: the by-project aggregation returns one row for each project reached through the
\* task of an entry of the caller in the window, with the sum of the durations of those
\* entries (absent counted as 0), rows sorted by total descending; a project without
\* such an entry, and an entry whose task has no project, give no row.
C21_ByProjectTotals ==
    [][\A p \in Procs :
          ByProjectReturns(p) =>
          LET I == EntryIdsIn(req[p].caller, unwrap(local[p]))
              P == {unwrap(ProjectReached(i)) : i \in {j \in I : is_some(ProjectReached(j))}}
              rows == unwrap(resp'[p].body)
          IN /\ resp'[p].status = 200
             /\ Len(rows) = Cardinality(P)
             /\ {rows[j].project_id : j \in 1..Len(rows)} = P
             /\ \A j \in 1..Len(rows) :
                   /\ rows[j].project_name = projects[rows[j].project_id].name
                   /\ rows[j].total_duration_seconds
                        = DurationTotal({i \in I : ProjectReached(i) = Some(rows[j].project_id)})
             /\ \A j \in 1..(Len(rows) - 1) :
                   rows[j].total_duration_seconds >= rows[j + 1].total_duration_seconds]_vars

\* an aggregation answered two projects, the one with the larger total first
C21_Witness ==
    \E p \in Procs :
        /\ pc[p] = "done"
        /\ req[p].op = "time_by_project"
        /\ resp[p].status = 200
        /\ Len(unwrap(resp[p].body)) = 2
        /\ unwrap(resp[p].body)[1].total_duration_seconds = 7
        /\ unwrap(resp[p].body)[2].total_duration_seconds = 5

\* the by-day trend of worker p returns in this step
TrendReturns(p) == pc[p] = "productivity_trend_query" /\ Returns(p)

\* C22: the by-day trend returns one point for each UTC date on which an entry of the
\* caller starts within the window, with the sum of the durations of the caller's
\* entries that start on that date (absent counted as 0), points sorted by date
\* ascending, no date twice, no point for a date without entry.
C22_TrendByDay ==
    [][\A p \in Procs :
          TrendReturns(p) =>
          LET I == EntryIdsIn(req[p].caller, unwrap(local[p]))
              D == {date_naive(time_entries[i].start_time) : i \in I}
              rows == unwrap(resp'[p].body)
          IN /\ resp'[p].status = 200
             /\ Len(rows) = Cardinality(D)
             /\ {rows[j].date_point : j \in 1..Len(rows)} = D
             /\ \A j \in 1..Len(rows) :
                   rows[j].total_duration_seconds
                     = DurationTotal({i \in I :
                          date_naive(time_entries[i].start_time) = rows[j].date_point})
             /\ \A j \in 1..(Len(rows) - 1) : rows[j].date_point < rows[j + 1].date_point]_vars

\* a trend answered a point for each of the two days of the window, in their order
C22_Witness ==
    \E p \in Procs :
        /\ pc[p] = "done"
        /\ req[p].op = "productivity_trend"
        /\ resp[p].status = 200
        /\ Len(unwrap(resp[p].body)) = 2
        /\ unwrap(resp[p].body)[1].date_point = WindowDay
        /\ unwrap(resp[p].body)[2].date_point = WindowDay + 1

\* C27: every project id and name the by-project aggregation returns to a caller is
\* that of a project the caller owns.
C27_ByProjectOwnProjectsOnly ==
    [][\A p \in Procs :
          ByProjectReturns(p) =>
          \A j \in 1..Len(unwrap(resp'[p].body)) :
              LET row == unwrap(resp'[p].body)[j]
              IN /\ Owns(projects, row.project_id, req[p].caller)
                 /\ row.project_name = projects[row.project_id].name]_vars

---------------------------------------------------------------------------
(* Properties of time entries against the deletion of their task *)

\* createTimeEntry answers 404 and inserts nothing when the caller owns no task of the
\* id it names, and inserts only after its probe found such a task
CreateTimeEntryGuarded ==
    [][\A p \in Procs :
          /\ (Steps(p) /\ pc[p] = "idle" /\ req'[p].op = "create_time_entry"
                /\ ~Owns(tasks, req'[p].id, req'[p].caller))
             => (resp'[p].status = 404 /\ pc'[p] = "done" /\ time_entries' = time_entries)
          /\ (Steps(p) /\ time_entries' # time_entries) => pc[p] = "create_time_entry_insert"]_vars

\* C28: in every reachable state, every time entry references an existing task owned
\* by the entry's owner, task deletions and their races with createTimeEntry included.
C28_EntriesReferenceOwnedTasks ==
    \A e \in DOMAIN time_entries :
        Owns(tasks, time_entries[e].task_id, time_entries[e].user_id)

---------------------------------------------------------------------------
(* Properties of concurrent requests on one row *)

\* C25: an addLabel whose probes found the task and the label owned by the caller and
\* the pair not yet associated returns success from its insert, whatever another
\* addLabel of the same pair did in between, and the pair is then associated.
C25_ConcurrentAddLabelBothSucceed ==
    [][\A p \in Procs :
          (pc[p] = "add_label_insert" /\ Returns(p)) =>
             /\ resp'[p].status \in {200, 201}
             /\ NewTaskLabelAssociation(req[p].id, req[p].label_id) \in task_labels']_vars

\* C26: no toggle is lost. Every successful toggle of a task whose stored status is
\* "pending" or "completed" leaves the stored status different from what it was just
\* before the toggle's write, whatever other toggles ran between its read and its write;
\* so after n successful toggles the status differs from the initial one exactly when
\* n is odd.
C26_NoToggleLost ==
    [][\A p \in Procs :
          (ToggleWrites(p) /\ tasks[req[p].id].status \in {"pending", "completed"}) =>
             /\ tasks'[req[p].id].status \in {"pending", "completed"}
             /\ tasks'[req[p].id].status # tasks[req[p].id].status]_vars

---------------------------------------------------------------------------
(* Properties of the rendering of failures *)

GenericMessage == <<"An internal server error occurred. Please try again later.">>

\* process p renders the error its handler failed with
Renders(p) == pc[p] = "error_response" /\ Returns(p)

\* the response of a rendered ServiceError has the status of its classification, and
\* for a storage, pool or internal failure the fixed generic message
RenderedByClass(p) ==
    LET e == unwrap(local[p])
        r == resp'[p]
    IN /\ e.kind \in {"BadRequest", "ValidationError"} => r.status = 400
       /\ e.kind = "Unauthorized" => r.status = 401
       /\ e.kind = "NotFound" => r.status = 404
       /\ e.kind = "ConflictError" => r.status = 409
       /\ e.kind \in {"DatabaseError", "PoolError", "InternalServerError"} =>
             (r.status = 500 /\ r.message = GenericMessage /\ r.message # e.msg)
       /\ e.kind \notin {"DatabaseError", "PoolError", "InternalServerError"} =>
             r.message = e.msg

\* process p is answered by the identity extractor: its header gave no identity
Rejects(p) == pc[p] = "idle" /\ Returns(p) /\ req'[p].op = "request"

---------------------------------------------------------------------------
(* Properties of the pool of storage handles *)

\* C24: the handles in use never exceed the pool size; an operation awaits pool.get()
\* only at its start, holding no handle; while every handle is in use, an operation
\* leaves pool.get() only by failing with a pool error, answered 500, having changed
\* nothing in storage; and every started operation eventually returns, completed or
\* failed.
C24_PoolBoundedOperationsEnd ==
    /\ [](handles_in_use <= PoolSize)
    /\ [][\A p \in Procs :
            /\ pc'[p] = "pool_get" => pc[p] \in {"idle", "pool_get"}
            /\ (pc[p] = "pool_get" /\ pc'[p] # "pool_get" /\ handles_in_use >= PoolSize) =>
                  (pc'[p] = "done" /\ resp'[p].status = 500 /\ storeVars' = storeVars)]_vars
    /\ \A p \in Procs : InProgress(p) ~> (pc[p] = "done")

\* the pool is exhausted: one operation holds the only handle between its two
\* statements, another awaits pool.get(), or has failed in it while the first held on
C24_Witness ==
    \E p, q \in Procs :
        /\ pc[p] = "delete_task_row"
        /\ handles_in_use = PoolSize
        /\ pc[q] = "done"
        /\ resp[q].status = 500
        /\ req[q].op = "delete_task"

====
